---- MODULE Spec2Model ----
(***************************************************************************)
(* A model of SimpleBroker (package broker): the in-memory message broker  *)
(* with point-to-point queues, publish/subscribe topics, a dead-letter     *)
(* store, metrics counters and the open -> closed lifecycle.               *)
(*                                                                         *)
(* Every public method is a sequence of steps, one step per access to      *)
(* shared memory (an atomic load/add, a sync.Map call, a channel           *)
(* operation, a lock operation), so that goroutines running methods        *)
(* concurrently interleave as the Go memory model lets them. A slice kept  *)
(* in b.deadLetters is modelled by its value.                              *)
(***************************************************************************)
EXTENDS Integers, Sequences, FiniteSets, TLC

\* ----------------------------------------------------------------- bounds
\* Goroutines calling the broker.
NProcs == 2
\* Buffer of a queue's channel; make(chan Message, 1000) in the code, scaled.
QueueCap == 1
\* Buffer of a subscriber's channel; make(chan Message, 100) in the code, scaled.
SubCap == 1
\* Subscriber endpoints ever created.
MaxEndpoints == 2
\* Calls made in a run of the queue and dead-letter engine (Spec).
MaxCalls == 3
\* Calls made in a run of concurrent pushes (SpecPush).
MaxCallsPush == 3
\* Calls made in a run of the lifecycle (SpecLife).
MaxCallsLife == 3
\* Calls made in a run of the lifecycle against the other methods (SpecAdmin).
MaxCallsAdmin == 3
\* Calls made in a run of the pub/sub engine (SpecPubSub).
MaxCallsPubSub == 3
\* Calls made in a run of Subscribe, Unsubscribe and Publish on two topics
\* (SpecTopic).
MaxCallsTopic == 4
\* Calls made in a run of the dead-letter store (SpecDlq).
MaxCallsDlq == 4
\* Calls made in a run of all the operations that do not wait for a message
\* (SpecAll).
MaxCallsAll == 3
\* Calls made in a run of the blocking pull (SpecFair).
MaxCallsFair == 4
MaxCallsFifo == 5
\* buffer size where the order of the buffer matters
FifoCap == 2
MaxCallsDrain == 4
DrainCap == 2
MaxCallsPull == 3
MaxCallsTimed == 3
\* calls made in SpecCap, after the ones that filled the buffer
MaxCallsCap == 26

\* ------------------------------------------------------- program constants
DefaultMaxRetry == 3
\* make(chan Message, 1000) in createMessageQueue
ChanCap == 1000

Procs == 1..NProcs
Queues == {"q"}
Topics == {"t"}
\* The topic names of the runs that tell topics apart (SpecTopic).
AllTopics == {"t", "u"}
Endpoints == 1..MaxEndpoints
\* the nil channel
NoEp == 0

\* ---------------------------------------------------------------- state
VARIABLES
    closed,      \* b.closed: 0 open, 1 closed
    cancelled,   \* b.ctx is done (b.cancel() was called)
    qset,        \* keys of b.queues
    buf,         \* mq.messages: the channel's buffer, per queue
    recvq,       \* goroutines parked in a receive on mq.messages, per queue
    stats,       \* mq.stats, per queue
    qmetrics,    \* b.metrics.QueueMetrics[name]: "none", "live" (the queue's
                 \* own stats object) or "orphan" (another, zero, stats object)
    metrics,     \* the atomic counters of b.metrics
    mlock,       \* b.metrics.mu: the goroutines that hold it for reading
    dlqset,      \* keys of b.deadLetters
    dlqhdr,      \* b.deadLetters[queue], the slice stored: [a |-> its backing
                 \* array (0: none), n |-> its length]
    heap,        \* the backing arrays of the DLQ slices, each as long as its
                 \* capacity
    topics,      \* keys of b.subscribers
    subs,        \* subMgr.subscribers, per topic
    lock,        \* subMgr.mu, per topic: [w |-> writer or 0, r |-> readers]
    chbuf,       \* a subscriber channel's buffer, per endpoint
    chclosed,    \* a subscriber channel is closed, per endpoint
    nextEp,      \* endpoints created so far
    panicked,    \* "" or the runtime panic that aborted the process
    pc,          \* each goroutine's position
    op,          \* each goroutine's current call and its arguments
    tmp,         \* each goroutine's local variables
    ret,         \* each goroutine's last return value
    quota,       \* calls that may still be started
    nextId,      \* message ids handed out so far
    chcap,       \* capacity of mq.messages, given to make by createMessageQueue
    hist         \* history of the run, read by the properties only

vars == <<closed, cancelled, qset, buf, recvq, stats, qmetrics, metrics, mlock,
          dlqset, dlqhdr, heap, topics, subs, lock, chbuf, chclosed, nextEp,
          panicked, pc, op,
          tmp, ret, quota, nextId, chcap, hist>>

queueVars == <<qset, buf, recvq, stats, qmetrics>>
dlqVars == <<dlqset, dlqhdr, heap>>
subVars == <<topics, subs, lock, chbuf, chclosed, nextEp>>
lifeVars == <<closed, cancelled>>
\* moved by the call starts only, or never
callVars == <<quota, nextId, chcap>>
\* everything of the broker
brokerVars == <<lifeVars, queueVars, metrics, mlock, dlqVars, subVars, panicked>>

\* ------------------------------------------------------------- messages
NoMsg ==
    [ID |-> 0, Body |-> 0, Headers |-> 0, Attempts |-> 0, MaxRetry |-> 0,
     Queue |-> ""]

BodyOf(id) == 100 + id

\* the headers the host puts in the message with this id
HeadersOf(id) == 200 + id

\* whatever the host wrote in the Queue field of its message
HostQueue == "host"

\* Headers 0 is the empty map
NewMessage(id, body, queue) ==
    [ID |-> id, Body |-> body, Headers |-> 0, Attempts |-> 0,
     MaxRetry |-> DefaultMaxRetry, Queue |-> queue]

\* msg := NewMessage(id, body, name); msg.Headers[k] = v
HostMessage(id) ==
    [NewMessage(id, BodyOf(id), HostQueue) EXCEPT !.Headers = HeadersOf(id)]

ZeroStats ==
    [MessageCount |-> 0, EnqueuedTotal |-> 0, DequeuedTotal |-> 0,
     DeadLetterCount |-> 0]

NewMetrics ==
    [TotalMessages |-> 0, ProcessedMessages |-> 0, FailedMessages |-> 0,
     ActiveQueues |-> 0, ActiveConsumers |-> 0]

NoOp == [name |-> "", q |-> "", msg |-> NoMsg, ep |-> NoEp, tmo |-> 0]

\* []Message{}: no backing array, length 0
NoSlice == [a |-> 0, n |-> 0]

NoTmp ==
    [dlq |-> NoSlice, i |-> 0, fresh |-> FALSE, m |-> NoMsg, must |-> {}, seen |-> {},
     timer |-> FALSE]

NoRet == [name |-> "", err |-> "", msg |-> NoMsg, has |-> FALSE, ep |-> NoEp]

NoHist ==
    [closeOk |-> 0,       \* Close() calls that returned nil
     pushed |-> {},       \* ids whose Push returned nil
     removed |-> {},      \* ids a pull, a purge or a reprocess took out
     got |-> <<>>,        \* ids of the messages the pulls returned, in order
     purged |-> 0,        \* messages PurgeQueue discarded and counted
     over |-> 0,          \* Pushes that found the buffer full
     eps |-> {},          \* endpoints Subscribe returned
     snap |-> [taken |-> FALSE, s |-> NoSlice, v |-> <<>>],
                          \* the slice the last GetDLQ returned and the
                          \* elements it showed then
     sent |-> 0,          \* messages a Push sent into a queue's channel
     pubs |-> 0,          \* Publishes that found the broker open
     dead |-> 0,          \* entries MoveToDLQ stored
     reps |-> 0,          \* entries ReprocessDLQ removed
     lost |-> {},         \* <<id, topic>> of a Publish that found no topic record
     closes |-> [e \in Endpoints |-> 0],  \* close(ch) executed, per endpoint
     after |-> [p \in Procs |-> FALSE]]   \* the call began after Close returned nil

\* -------------------------------------------------------------- helpers
Running == panicked = ""

At(p, l) == Running /\ pc[p] = l

Goto(p, l) == pc' = [pc EXCEPT ![p] = l]

\* the goroutine moves on inside its call
Step(p, l) == Goto(p, l) /\ UNCHANGED <<op, tmp, ret>>

\* the call returns r: its arguments and locals are gone
Ret(p, r) ==
    /\ pc' = [pc EXCEPT ![p] = "idle"]
    /\ ret' = [ret EXCEPT ![p] = r]
    /\ op' = [op EXCEPT ![p] = NoOp]
    /\ tmp' = [tmp EXCEPT ![p] = NoTmp]

\* the call returns an error (or nil, "") and nothing else
Return(p, err) == Ret(p, [NoRet EXCEPT !.name = op[p].name, !.err = err])

RemoveAt(s, i) == SubSeq(s, 1, i - 1) \o SubSeq(s, i + 1, Len(s))

RemoveProc(s, p) == SelectSeq(s, LAMBDA x : x # p)

\* a closed check that never sees the flag
IsClosedNever == FALSE

\* atomic.LoadInt32(&b.closed) == 1
IsClosed == closed = 1

\* -------------------------------------------------------------- Init
InitBroker ==
    /\ closed = 0
    /\ cancelled = FALSE
    /\ qset = {}
    /\ buf = [q \in Queues |-> <<>>]
    /\ recvq = [q \in Queues |-> <<>>]
    /\ stats = [q \in Queues |-> ZeroStats]
    /\ qmetrics = [q \in Queues |-> "none"]
    /\ metrics = NewMetrics
    /\ mlock = {}
    /\ dlqset = {}
    /\ dlqhdr = [q \in Queues |-> NoSlice]
    /\ heap = <<>>
    /\ topics = {}
    /\ subs = [t \in AllTopics |-> <<>>]
    /\ lock = [t \in AllTopics |-> [w |-> 0, r |-> {}]]
    /\ chbuf = [e \in Endpoints |-> <<>>]
    /\ chclosed = [e \in Endpoints |-> FALSE]
    /\ nextEp = 0
    /\ panicked = ""
    /\ pc = [p \in Procs |-> "idle"]
    /\ op = [p \in Procs |-> NoOp]
    /\ tmp = [p \in Procs |-> NoTmp]
    /\ ret = [p \in Procs |-> NoRet]
    /\ nextId = 0
    /\ hist = NoHist

\* ---------------------------------------------------------- call starts
\* A goroutine that is not inside a call starts one. Goroutines that are not
\* inside a call are interchangeable, so the one with the least number does.
CanCall(p) ==
    /\ At(p, "idle")
    /\ quota > 0
    /\ \A r \in 1..(p - 1) : pc[r] # "idle"

\* goroutine p starts a call
Start(p, name, q, msg, ep, tmo, first) ==
    /\ At(p, "idle")
    /\ quota > 0
    /\ quota' = quota - 1
    /\ chcap' = chcap
    /\ op' = [op EXCEPT ![p] = [name |-> name, q |-> q, msg |-> msg, ep |-> ep,
                                tmo |-> tmo]]
    /\ tmp' = [tmp EXCEPT ![p] = NoTmp]
    /\ ret' = [ret EXCEPT ![p] = NoRet]
    /\ hist' = [hist EXCEPT !.after[p] = (hist.closeOk > 0)]
    /\ Goto(p, first)

Begin(p, name, q, msg, ep, tmo, first) ==
    /\ CanCall(p)
    /\ Start(p, name, q, msg, ep, tmo, first)

\* broker.Push(queue, NewMessage(id, body, queue)) with a fresh id
CallPush(p, q) ==
    /\ Begin(p, "push", q, HostMessage(nextId + 1), NoEp, 0, "push_check")
    /\ nextId' = nextId + 1
    /\ UNCHANGED brokerVars

\* ------------------------------------------------------------------ Push
\* a Push that rebuilds the message with NewMessage: the headers are dropped
PushCheckRebuild(p) ==
    /\ At(p, "push_check")
    /\ IF IsClosed
       THEN Return(p, "closed")
       ELSE /\ op' = [op EXCEPT
                       ![p].msg = NewMessage(op[p].msg.ID, op[p].msg.Body, op[p].q)]
            /\ Goto(p, "push_create")
            /\ UNCHANGED <<tmp, ret>>
    /\ UNCHANGED <<brokerVars, callVars, hist>>

\* if atomic.LoadInt32(&b.closed) == 1 { return error }; msg.Queue = queue
PushCheck(p) ==
    /\ At(p, "push_check")
    /\ IF IsClosed
       THEN Return(p, "closed")
       ELSE /\ op' = [op EXCEPT ![p].msg.Queue = op[p].q]
            /\ Goto(p, "push_create")
            /\ UNCHANGED <<tmp, ret>>
    /\ UNCHANGED <<brokerVars, callVars, hist>>

\* createMessageQueue(queue), the argument of LoadOrStore, evaluated on every
\* Push: b.metrics.QueueMetrics[name] = stats, under b.metrics.mu. The stats
\* object is new, so the entry stops pointing at the stats of the queue in
\* the registry and at those of every other Push in flight.
PushCreate(p) ==
    /\ At(p, "push_create")
    /\ mlock = {}
    /\ qmetrics' = [qmetrics EXCEPT ![op[p].q] = "orphan"]
    /\ tmp' = [r \in Procs |->
                 IF r = p THEN [tmp[r] EXCEPT !.fresh = TRUE]
                 ELSE IF op[r].q = op[p].q /\ pc[r] \in {"push_active", "push_store"}
                      THEN [tmp[r] EXCEPT !.fresh = FALSE]
                      ELSE tmp[r]]
    /\ Goto(p, "push_active")
    /\ UNCHANGED <<mlock, lifeVars, qset, buf, recvq, stats, metrics, dlqVars,
                   subVars, panicked, op, ret, callVars, hist>>

\* createMessageQueue: atomic.AddInt32(&b.metrics.ActiveQueues, 1)
PushActive(p) ==
    /\ At(p, "push_active")
    /\ metrics' = [metrics EXCEPT !.ActiveQueues = @ + 1]
    /\ Step(p, "push_store")
    /\ UNCHANGED <<mlock, lifeVars, queueVars, dlqVars, subVars, panicked,
                   callVars, hist>>

\* b.queues.LoadOrStore(queue, mq): the new queue is stored only if the name
\* is absent; then its stats are the ones QueueMetrics points at, unless a
\* later createMessageQueue has replaced the entry.
PushStore(p) ==
    /\ At(p, "push_store")
    /\ IF op[p].q \in qset
       THEN UNCHANGED <<qset, qmetrics>>
       ELSE /\ qset' = qset \cup {op[p].q}
            /\ qmetrics' = [qmetrics EXCEPT
                              ![op[p].q] = IF tmp[p].fresh THEN "live" ELSE @]
    /\ Step(p, "push_send")
    /\ UNCHANGED <<lifeVars, buf, recvq, stats, metrics, mlock, dlqVars,
                   subVars, panicked, callVars, hist>>

\* select { case mq.messages <- msg: ... default: return b.MoveToDLQ(queue, msg) }
\* A send hands the message to a parked receiver if there is one, else puts
\* it in the buffer if there is room, else is not ready.
PushSend(p) ==
    /\ At(p, "push_send")
    /\ LET q == op[p].q IN
       IF recvq[q] # <<>>
       THEN LET r == Head(recvq[q]) IN
            /\ recvq' = [recvq EXCEPT ![q] = Tail(@)]
            /\ tmp' = [tmp EXCEPT ![r].m = op[p].msg]
            /\ pc' = [pc EXCEPT ![p] = "push_count", ![r] = "pull_count"]
            /\ hist' = [hist EXCEPT !.removed = @ \cup {op[p].msg.ID},
                                    !.sent = @ + 1]
            /\ UNCHANGED buf
       ELSE IF Len(buf[q]) < chcap
       THEN /\ buf' = [buf EXCEPT ![q] = Append(@, op[p].msg)]
            /\ Goto(p, "push_count")
            /\ hist' = [hist EXCEPT !.sent = @ + 1]
            /\ UNCHANGED <<recvq, tmp>>
       ELSE /\ Goto(p, "dlq_load")
            /\ hist' = [hist EXCEPT !.over = @ + 1]
            /\ UNCHANGED <<buf, recvq, tmp>>
    /\ UNCHANGED <<lifeVars, qset, stats, qmetrics, metrics, mlock, dlqVars,
                   subVars, panicked, op, ret, callVars>>

\* atomic.AddInt64(&mq.stats.MessageCount, 1)
PushCount(p) ==
    /\ At(p, "push_count")
    /\ stats' = [stats EXCEPT ![op[p].q].MessageCount = @ + 1]
    /\ Step(p, "push_enq")
    /\ UNCHANGED <<lifeVars, qset, buf, recvq, qmetrics, metrics, mlock,
                   dlqVars, subVars, panicked, callVars, hist>>

\* a Push that does not count the message it put in the buffer
PushEnqSkip(p) ==
    /\ At(p, "push_enq")
    /\ Step(p, "push_total")
    /\ UNCHANGED <<brokerVars, callVars, hist>>

\* atomic.AddInt64(&mq.stats.EnqueuedTotal, 1)
PushEnq(p) ==
    /\ At(p, "push_enq")
    /\ stats' = [stats EXCEPT ![op[p].q].EnqueuedTotal = @ + 1]
    /\ Step(p, "push_total")
    /\ UNCHANGED <<lifeVars, qset, buf, recvq, qmetrics, metrics, mlock,
                   dlqVars, subVars, panicked, callVars, hist>>

\* b.metrics.IncrementTotalMessages(); return nil
PushTotal(p) ==
    /\ At(p, "push_total")
    /\ metrics' = [metrics EXCEPT !.TotalMessages = @ + 1]
    /\ Return(p, "")
    /\ hist' = [hist EXCEPT !.pushed = @ \cup {op[p].msg.ID}]
    /\ UNCHANGED <<mlock, lifeVars, queueVars, dlqVars, subVars, panicked,
                   callVars>>

\* ------------------------------------------------------------- MoveToDLQ
\* The elements a slice shows: the first n cells of its backing array, as they
\* are now.
Cells(h) == IF h.a = 0 THEN <<>> ELSE SubSeq(heap[h.a], 1, h.n)

\* cap(s)
Cap(h) == IF h.a = 0 THEN 0 ELSE Len(heap[h.a])

\* The DLQ of each queue as GetDLQ would show it.
dlq == [q \in Queues |-> Cells(dlqhdr[q])]

\* The capacity append gives the array it allocates for one more element:
\* the runtime doubles a small slice.
GrowCap(c) == IF c = 0 THEN 1 ELSE 2 * c

\* append(s, m): the slice it returns. It is on the same array when the
\* capacity allows, on a new array otherwise.
AppendSlice(h) ==
    IF h.n < Cap(h) THEN [a |-> h.a, n |-> h.n + 1]
                    ELSE [a |-> Len(heap) + 1, n |-> h.n + 1]

\* append(s, m): the arrays after it. It writes cell n + 1 of the array of s,
\* or copies the elements of s to a new array and writes m after them.
AppendHeap(h, m) ==
    IF h.n < Cap(h)
    THEN [heap EXCEPT ![h.a][h.n + 1] = m]
    ELSE Append(heap, [j \in 1..GrowCap(Cap(h)) |->
                         IF j <= h.n THEN heap[h.a][j]
                         ELSE IF j = h.n + 1 THEN m ELSE NoMsg])

\* append(s[:i], s[i+1:]...) for the 0-based i of the i-th element: the arrays
\* after it. The elements behind the i-th move down one cell of the same
\* array; the last cell keeps its value.
RemoveHeap(h, i) ==
    [heap EXCEPT ![h.a] = [j \in 1..Len(@) |->
                             IF j >= i /\ j < h.n THEN @[j + 1] ELSE @[j]]]

\* b.MoveToDLQ(queue, msg) called by the host
CallMoveToDLQ(p, q) ==
    /\ Begin(p, "moveToDLQ", q, HostMessage(nextId + 1), NoEp, 0, "dlq_load")
    /\ nextId' = nextId + 1
    /\ UNCHANGED brokerVars

\* msg.Attempts++; dlqInterface, _ := b.deadLetters.LoadOrStore(queue, []Message{})
DlqLoad(p) ==
    /\ At(p, "dlq_load")
    /\ op' = [op EXCEPT ![p].msg.Attempts = @ + 1]
    /\ dlqset' = dlqset \cup {op[p].q}
    /\ tmp' = [tmp EXCEPT ![p].dlq = dlqhdr[op[p].q]]
    /\ Goto(p, "dlq_store")
    /\ UNCHANGED <<lifeVars, queueVars, metrics, mlock, dlqhdr, heap, subVars,
                   panicked, ret, callVars, hist>>

\* dlq = append(dlq, msg); b.deadLetters.Store(queue, dlq)
DlqStore(p) ==
    /\ At(p, "dlq_store")
    /\ heap' = AppendHeap(tmp[p].dlq, op[p].msg)
    /\ dlqhdr' = [dlqhdr EXCEPT ![op[p].q] = AppendSlice(tmp[p].dlq)]
    /\ dlqset' = dlqset \cup {op[p].q}
    /\ hist' = [hist EXCEPT !.dead = @ + 1]
    /\ Step(p, "dlq_count")
    /\ UNCHANGED <<lifeVars, queueVars, metrics, mlock, subVars, panicked,
                   callVars>>

\* if queue exists { atomic.AddInt64(&mq.stats.DeadLetterCount, 1) }
DlqCount(p) ==
    /\ At(p, "dlq_count")
    /\ IF op[p].q \in qset
       THEN stats' = [stats EXCEPT ![op[p].q].DeadLetterCount = @ + 1]
       ELSE UNCHANGED stats
    /\ Step(p, "dlq_failed")
    /\ UNCHANGED <<lifeVars, qset, buf, recvq, qmetrics, metrics, mlock,
                   dlqVars, subVars, panicked, callVars, hist>>

\* b.metrics.IncrementFailedMessages(); return nil
DlqFailed(p) ==
    /\ At(p, "dlq_failed")
    /\ metrics' = [metrics EXCEPT !.FailedMessages = @ + 1]
    /\ Return(p, "")
    /\ hist' = [hist EXCEPT !.pushed = IF op[p].name = "moveToDLQ" THEN @
                                       ELSE @ \cup {op[p].msg.ID}]
    /\ UNCHANGED <<mlock, lifeVars, queueVars, dlqVars, subVars, panicked,
                   callVars>>

\* ------------------------------------------------- Pull, PullWithTimeout
\* b.Pull(queue), which is b.PullWithTimeout(queue, 0)
CallPull(p, q) ==
    /\ Begin(p, "pull", q, NoMsg, NoEp, 0, "pull_check")
    /\ UNCHANGED <<brokerVars, nextId>>

\* b.PullWithTimeout(queue, tmo); tmo is a duration: negative, zero or positive
CallPullWithTimeout(p, q, tmo) ==
    /\ Begin(p, "pullWithTimeout", q, NoMsg, NoEp, tmo, "pull_check")
    /\ UNCHANGED <<brokerVars, nextId>>

\* if atomic.LoadInt32(&b.closed) == 1 { return nil, error }
PullCheck(p) ==
    /\ At(p, "pull_check")
    /\ IF IsClosed THEN Return(p, "closed") ELSE Step(p, "pull_load")
    /\ UNCHANGED <<brokerVars, callVars, hist>>

\* a pull that creates the queue it does not find
PullLoadCreate(p) ==
    /\ At(p, "pull_load")
    /\ qset' = qset \cup {op[p].q}
    /\ IF op[p].tmo = 0
       THEN Step(p, "pull_try")
       ELSE /\ Goto(p, "pull_select")
            /\ tmp' = [tmp EXCEPT ![p].timer = (op[p].tmo < 0)]
            /\ UNCHANGED <<op, ret>>
    /\ UNCHANGED <<lifeVars, buf, recvq, stats, qmetrics, metrics, mlock,
                   dlqVars, subVars, panicked, callVars, hist>>

\* queueInterface, exists := b.queues.Load(queue); if timeout == 0 the pull
\* does not block; otherwise ctx := context.WithTimeout(b.ctx, timeout), which
\* is born expired when the duration is not positive.
PullLoad(p) ==
    /\ At(p, "pull_load")
    /\ IF op[p].q \notin qset
       THEN Return(p, "unknown_queue")
       ELSE IF op[p].tmo = 0
       THEN Step(p, "pull_try")
       ELSE /\ Goto(p, "pull_select")
            /\ tmp' = [tmp EXCEPT ![p].timer = (op[p].tmo < 0)]
            /\ UNCHANGED <<op, ret>>
    /\ UNCHANGED <<brokerVars, callVars, hist>>

\* a receive that leaves the message in the buffer
ReceivePeek(p, next) ==
    /\ buf[op[p].q] # <<>>
    /\ tmp' = [tmp EXCEPT ![p].m = Head(buf[op[p].q])]
    /\ Goto(p, next)
    /\ UNCHANGED <<buf, hist, op, ret>>

\* a receive that takes the message sent last
ReceiveLast(p, next) ==
    /\ buf[op[p].q] # <<>>
    /\ LET b == buf[op[p].q] IN
       /\ buf' = [buf EXCEPT ![op[p].q] = SubSeq(b, 1, Len(b) - 1)]
       /\ tmp' = [tmp EXCEPT ![p].m = b[Len(b)]]
       /\ hist' = [hist EXCEPT !.removed = @ \cup {b[Len(b)].ID}]
    /\ Goto(p, next)
    /\ UNCHANGED <<op, ret>>

\* the receive of a select: the head of the buffer goes to the goroutine
Receive(p, next) ==
    /\ buf[op[p].q] # <<>>
    /\ buf' = [buf EXCEPT ![op[p].q] = Tail(@)]
    /\ tmp' = [tmp EXCEPT ![p].m = Head(buf[op[p].q])]
    /\ hist' = [hist EXCEPT !.removed = @ \cup {Head(buf[op[p].q]).ID}]
    /\ Goto(p, next)
    /\ UNCHANGED <<op, ret>>

\* select { case msg := <-mq.messages: ... default: return nil, nil }
PullTry(p) ==
    /\ At(p, "pull_try")
    /\ IF buf[op[p].q] # <<>>
       THEN Receive(p, "pull_count")
       ELSE Return(p, "") /\ UNCHANGED <<buf, hist>>
    /\ UNCHANGED <<lifeVars, qset, recvq, stats, qmetrics, metrics, mlock,
                   dlqVars, subVars, panicked, callVars>>

\* ctx.Done() is closed: the broker's context was cancelled or the deadline has passed
CtxDone(p) == cancelled \/ tmp[p].timer

\* select { case msg := <-mq.messages: ... case <-ctx.Done(): ... } when the
\* receive can proceed: it may be chosen, whether or not ctx is done too
PullSelectRecv(p) ==
    /\ At(p, "pull_select")
    /\ Receive(p, "pull_count")
    /\ UNCHANGED <<lifeVars, qset, recvq, stats, qmetrics, metrics, mlock,
                   dlqVars, subVars, panicked, callVars>>

\* the same select when ctx is done: that case may be chosen, whether or not
\* a message is pending; return nil, "timeout waiting for message"
PullSelectDone(p) ==
    /\ At(p, "pull_select")
    /\ CtxDone(p)
    /\ Return(p, "timeout")
    /\ UNCHANGED <<brokerVars, callVars, hist>>

\* the same select when no case can proceed: the goroutine parks
PullPark(p) ==
    /\ At(p, "pull_select")
    /\ buf[op[p].q] = <<>>
    /\ ~CtxDone(p)
    /\ recvq' = [recvq EXCEPT ![op[p].q] = Append(@, p)]
    /\ Step(p, "pull_parked")
    /\ UNCHANGED <<lifeVars, qset, buf, stats, qmetrics, metrics, mlock,
                   dlqVars, subVars, panicked, callVars, hist>>

\* a context whose deadline never comes
TimerNever(p) == FALSE

\* the deadline of the pull's context passes; a parked goroutine is woken
\* with the ctx.Done() case
TimerFire(p) ==
    /\ Running
    /\ pc[p] \in {"pull_select", "pull_parked"}
    /\ ~tmp[p].timer
    /\ tmp' = [tmp EXCEPT ![p].timer = TRUE]
    /\ IF pc[p] = "pull_parked"
       THEN /\ recvq' = [recvq EXCEPT ![op[p].q] = RemoveProc(@, p)]
            /\ Goto(p, "pull_woken")
       ELSE UNCHANGED <<recvq, pc>>
    /\ UNCHANGED <<lifeVars, qset, buf, stats, qmetrics, metrics, mlock,
                   dlqVars, subVars, panicked, op, ret, callVars, hist>>

\* case <-ctx.Done(): return nil, "timeout waiting for message"
PullWoken(p) ==
    /\ At(p, "pull_woken")
    /\ Return(p, "timeout")
    /\ UNCHANGED <<brokerVars, callVars, hist>>

\* atomic.AddInt64(&mq.stats.MessageCount, -1)
PullCount(p) ==
    /\ At(p, "pull_count")
    /\ stats' = [stats EXCEPT ![op[p].q].MessageCount = @ - 1]
    /\ Step(p, "pull_deq")
    /\ UNCHANGED <<lifeVars, qset, buf, recvq, qmetrics, metrics, mlock,
                   dlqVars, subVars, panicked, callVars, hist>>

\* a pull that does not count the message it took
PullDeqSkip(p) ==
    /\ At(p, "pull_deq")
    /\ Step(p, "pull_proc")
    /\ UNCHANGED <<brokerVars, callVars, hist>>

\* atomic.AddInt64(&mq.stats.DequeuedTotal, 1)
PullDeq(p) ==
    /\ At(p, "pull_deq")
    /\ stats' = [stats EXCEPT ![op[p].q].DequeuedTotal = @ + 1]
    /\ Step(p, "pull_proc")
    /\ UNCHANGED <<lifeVars, qset, buf, recvq, qmetrics, metrics, mlock,
                   dlqVars, subVars, panicked, callVars, hist>>

\* b.metrics.IncrementProcessedMessages(); return &msg, nil
PullProc(p) ==
    /\ At(p, "pull_proc")
    /\ metrics' = [metrics EXCEPT !.ProcessedMessages = @ + 1]
    /\ Ret(p, [NoRet EXCEPT !.name = op[p].name, !.msg = tmp[p].m, !.has = TRUE])
    /\ hist' = [hist EXCEPT !.got = Append(@, tmp[p].m.ID)]
    /\ UNCHANGED <<mlock, lifeVars, queueVars, dlqVars, subVars, panicked,
                   callVars>>

\* ------------------------------------------------------------ PurgeQueue
CallPurgeQueue(p, q) ==
    /\ Begin(p, "purge", q, NoMsg, NoEp, 0, "purge_load")
    /\ UNCHANGED <<brokerVars, nextId>>

\* queueInterface, exists := b.queues.Load(queue)
PurgeLoad(p) ==
    /\ At(p, "purge_load")
    /\ IF op[p].q \notin qset
       THEN Return(p, "unknown_queue")
       ELSE Step(p, "purge_recv")
    /\ UNCHANGED <<brokerVars, callVars, hist>>

\* for { select { case <-mq.messages: ... default: return nil } }
PurgeRecv(p) ==
    /\ At(p, "purge_recv")
    /\ IF buf[op[p].q] # <<>>
       THEN Receive(p, "purge_count")
       ELSE Return(p, "") /\ UNCHANGED <<buf, hist>>
    /\ UNCHANGED <<lifeVars, qset, recvq, stats, qmetrics, metrics, mlock,
                   dlqVars, subVars, panicked, callVars>>

\* A purge that takes the discarded message back out of the enqueued total.
PurgeCountAll(p) ==
    /\ At(p, "purge_count")
    /\ stats' = [stats EXCEPT ![op[p].q].MessageCount = @ - 1,
                              ![op[p].q].EnqueuedTotal = @ - 1]
    /\ hist' = [hist EXCEPT !.purged = @ + 1]
    /\ Step(p, "purge_recv")
    /\ UNCHANGED <<lifeVars, qset, buf, recvq, qmetrics, metrics, mlock,
                   dlqVars, subVars, panicked, callVars>>

\* atomic.AddInt64(&mq.stats.MessageCount, -1)
PurgeCount(p) ==
    /\ At(p, "purge_count")
    /\ stats' = [stats EXCEPT ![op[p].q].MessageCount = @ - 1]
    /\ hist' = [hist EXCEPT !.purged = @ + 1]
    /\ Step(p, "purge_recv")
    /\ UNCHANGED <<lifeVars, qset, buf, recvq, qmetrics, metrics, mlock,
                   dlqVars, subVars, panicked, callVars>>

\* -------------------------------------------------------------- GetStats
\* b.GetMetrics().GetStats() called by the host
CallGetStats(p) ==
    /\ Begin(p, "getStats", "", NoMsg, NoEp, 0, "stats_rlock")
    /\ UNCHANGED <<brokerVars, nextId>>

\* m.mu.RLock(); defer m.mu.RUnlock(). The only writer, createMessageQueue,
\* holds the lock for one assignment, so a reader never finds it held.
StatsRLock(p) ==
    /\ At(p, "stats_rlock")
    /\ mlock' = mlock \cup {p}
    /\ Step(p, "stats_read")
    /\ UNCHANGED <<lifeVars, queueVars, metrics, dlqVars, subVars, panicked,
                   callVars, hist>>

\* A GetStats that returns without releasing the lock.
StatsReadKeep(p) ==
    /\ At(p, "stats_read")
    /\ Return(p, "")
    /\ UNCHANGED <<brokerVars, callVars, hist>>

\* the atomic loads, copyQueueMetrics, return, unlocking
StatsRead(p) ==
    /\ At(p, "stats_read")
    /\ mlock' = mlock \ {p}
    /\ Return(p, "")
    /\ UNCHANGED <<lifeVars, queueVars, metrics, dlqVars, subVars, panicked,
                   callVars, hist>>

\* ---------------------------------------------------------------- GetDLQ
\* b.GetDLQ(queue) called by the host
CallGetDLQ(p, q) ==
    /\ Begin(p, "getDLQ", q, NoMsg, NoEp, 0, "getdlq_load")
    /\ UNCHANGED <<brokerVars, nextId>>

\* dlqInterface, exists := b.deadLetters.Load(queue); if !exists { return
\* []Message{} }; return dlqInterface.([]Message): the stored slice itself
GetDlqLoad(p) ==
    /\ At(p, "getdlq_load")
    /\ LET h == IF op[p].q \in dlqset THEN dlqhdr[op[p].q] ELSE NoSlice IN
       hist' = [hist EXCEPT !.snap = [taken |-> TRUE, s |-> h, v |-> Cells(h)]]
    /\ Return(p, "")
    /\ UNCHANGED <<brokerVars, callVars>>

\* ---------------------------------------------------------- ReprocessDLQ
CallReprocessDLQ(p, q, id) ==
    /\ Begin(p, "reprocessDLQ", q, [NoMsg EXCEPT !.ID = id], NoEp, 0, "rep_load")
    /\ UNCHANGED <<brokerVars, nextId>>

\* the index of the first entry of s with the id, 0 if there is none
IndexOfID(s, id) ==
    IF \E i \in 1..Len(s) : s[i].ID = id
    THEN CHOOSE i \in 1..Len(s) :
            s[i].ID = id /\ \A j \in 1..(i - 1) : s[j].ID # id
    ELSE 0

\* A ReprocessDLQ that makes an empty DLQ for the queue when it finds none.
RepLoadMake(p) ==
    /\ At(p, "rep_load")
    /\ dlqset' = dlqset \cup {op[p].q}
    /\ IF op[p].q \notin dlqset
       THEN Return(p, "no_dlq")
       ELSE LET i == IndexOfID(dlq[op[p].q], op[p].msg.ID) IN
            IF i = 0
            THEN Return(p, "not_found")
            ELSE /\ tmp' = [tmp EXCEPT ![p].dlq = dlqhdr[op[p].q], ![p].i = i]
                 /\ op' = [op EXCEPT ![p].msg = [dlq[op[p].q][i] EXCEPT !.Attempts = 0]]
                 /\ Goto(p, "rep_store")
                 /\ UNCHANGED ret
    /\ UNCHANGED <<lifeVars, queueVars, metrics, mlock, dlqhdr, heap, subVars,
                   panicked, callVars, hist>>

\* dlqInterface, exists := b.deadLetters.Load(queue); for i, msg := range dlq
\* { if msg.ID == msgID { msg.Attempts = 0 ... } }; return "not found"
RepLoad(p) ==
    /\ At(p, "rep_load")
    /\ IF op[p].q \notin dlqset
       THEN Return(p, "no_dlq")
       ELSE LET i == IndexOfID(dlq[op[p].q], op[p].msg.ID) IN
            IF i = 0
            THEN Return(p, "not_found")
            ELSE /\ tmp' = [tmp EXCEPT ![p].dlq = dlqhdr[op[p].q], ![p].i = i]
                 /\ op' = [op EXCEPT ![p].msg = [dlq[op[p].q][i] EXCEPT !.Attempts = 0]]
                 /\ Goto(p, "rep_store")
                 /\ UNCHANGED ret
    /\ UNCHANGED <<brokerVars, callVars, hist>>

\* dlq = append(dlq[:i], dlq[i+1:]...); b.deadLetters.Store(queue, dlq);
\* return b.Push(queue, msg)
RepStore(p) ==
    /\ At(p, "rep_store")
    /\ heap' = RemoveHeap(tmp[p].dlq, tmp[p].i)
    /\ dlqhdr' = [dlqhdr EXCEPT
                    ![op[p].q] = [a |-> tmp[p].dlq.a, n |-> tmp[p].dlq.n - 1]]
    /\ hist' = [hist EXCEPT !.removed = @ \cup {op[p].msg.ID}, !.reps = @ + 1]
    /\ Step(p, "push_check")
    /\ UNCHANGED <<lifeVars, queueVars, metrics, mlock, dlqset, subVars,
                   panicked, callVars>>

\* ------------------------------------------------------------- subMgr.mu
LockFree(t) == lock[t].w = 0 /\ lock[t].r = {}

\* subMgr.mu.Lock()
WLock(p, t) ==
    /\ LockFree(t)
    /\ lock' = [lock EXCEPT ![t].w = p]

\* subMgr.mu.Unlock()
WUnlock(p, t) == lock' = [lock EXCEPT ![t].w = 0]

\* subMgr.mu.RLock()
RLock(p, t) ==
    /\ lock[t].w = 0
    /\ lock' = [lock EXCEPT ![t].r = @ \cup {p}]

\* subMgr.mu.RUnlock()
RUnlock(p, t) == lock' = [lock EXCEPT ![t].r = @ \ {p}]

\* ------------------------------------------------------------- Subscribe
\* b.Subscribe(topic); the channel it would make is the next endpoint
CallSubscribe(p, t) ==
    /\ nextEp < MaxEndpoints
    /\ Begin(p, "subscribe", t, NoMsg, nextEp + 1, 0, "sub_check")
    /\ nextEp' = nextEp + 1
    /\ UNCHANGED <<lifeVars, queueVars, metrics, mlock, dlqVars, topics, subs,
                   lock, chbuf, chclosed, panicked, nextId>>

\* if atomic.LoadInt32(&b.closed) == 1 { return nil, error }
SubCheck(p) ==
    /\ At(p, "sub_check")
    /\ IF IsClosed THEN Return(p, "closed") ELSE Step(p, "sub_store")
    /\ UNCHANGED <<brokerVars, callVars, hist>>

\* A Subscribe that stores a new, empty subscriber manager over the one the
\* topic has.
SubStoreReplace(p) ==
    /\ At(p, "sub_store")
    /\ topics' = topics \cup {op[p].q}
    /\ subs' = [subs EXCEPT ![op[p].q] = <<>>]
    /\ Step(p, "sub_lock")
    /\ UNCHANGED <<lifeVars, queueVars, metrics, mlock, dlqVars, lock, chbuf,
                   chclosed, nextEp, panicked, callVars, hist>>

\* subscriberChan := make(chan Message, 100); b.subscribers.LoadOrStore(topic, ...)
SubStore(p) ==
    /\ At(p, "sub_store")
    /\ topics' = topics \cup {op[p].q}
    /\ Step(p, "sub_lock")
    /\ UNCHANGED <<lifeVars, queueVars, metrics, mlock, dlqVars, subs, lock,
                   chbuf, chclosed, nextEp, panicked, callVars, hist>>

\* subMgr.mu.Lock()
SubLock(p) ==
    /\ At(p, "sub_lock")
    /\ WLock(p, op[p].q)
    /\ Step(p, "sub_append")
    /\ UNCHANGED <<lifeVars, queueVars, metrics, mlock, dlqVars, topics, subs,
                   chbuf, chclosed, nextEp, panicked, callVars, hist>>

\* subMgr.subscribers = append(subMgr.subscribers, subscriberChan); Unlock()
SubAppend(p) ==
    /\ At(p, "sub_append")
    /\ subs' = [subs EXCEPT ![op[p].q] = Append(@, op[p].ep)]
    /\ WUnlock(p, op[p].q)
    /\ Step(p, "sub_count")
    /\ UNCHANGED <<lifeVars, queueVars, metrics, mlock, dlqVars, topics, chbuf,
                   chclosed, nextEp, panicked, callVars, hist>>

\* atomic.AddInt32(&b.metrics.ActiveConsumers, 1); return subscriberChan, nil
SubCount(p) ==
    /\ At(p, "sub_count")
    /\ metrics' = [metrics EXCEPT !.ActiveConsumers = @ + 1]
    /\ Ret(p, [NoRet EXCEPT !.name = op[p].name, !.ep = op[p].ep])
    /\ hist' = [hist EXCEPT !.eps = @ \cup {op[p].ep}]
    /\ UNCHANGED <<mlock, lifeVars, queueVars, dlqVars, subVars, panicked,
                   callVars>>

\* ----------------------------------------------------------- Unsubscribe
\* b.Unsubscribe(topic, e) for an endpoint e that Subscribe has returned
CallUnsubscribe(p, t, e) ==
    /\ e \in hist.eps
    /\ Begin(p, "unsubscribe", t, NoMsg, e, 0, "unsub_load")
    /\ UNCHANGED <<brokerVars, nextId>>

\* subMgrInterface, exists := b.subscribers.Load(topic)
UnsubLoad(p) ==
    /\ At(p, "unsub_load")
    /\ IF op[p].q \notin topics
       THEN Return(p, "unknown_topic")
       ELSE Step(p, "unsub_lock")
    /\ UNCHANGED <<brokerVars, callVars, hist>>

\* subMgr.mu.Lock(); defer subMgr.mu.Unlock()
UnsubLock(p) ==
    /\ At(p, "unsub_lock")
    /\ WLock(p, op[p].q)
    /\ Step(p, "unsub_find")
    /\ UNCHANGED <<lifeVars, queueVars, metrics, mlock, dlqVars, topics, subs,
                   chbuf, chclosed, nextEp, panicked, callVars, hist>>

\* the index of the first occurrence of e in s, 0 if there is none
IndexOf(s, e) ==
    IF \E i \in 1..Len(s) : s[i] = e
    THEN CHOOSE i \in 1..Len(s) : s[i] = e /\ \A j \in 1..(i - 1) : s[j] # e
    ELSE 0

\* close(ch) on each channel of es: closing a closed channel panics
CloseChans(es) ==
    /\ chclosed' = [e \in Endpoints |-> chclosed[e] \/ e \in es]
    /\ hist' = [hist EXCEPT
                  !.closes = [e \in Endpoints |-> IF e \in es THEN @[e] + 1 ELSE @[e]]]
    /\ panicked' = IF \E e \in es : chclosed[e]
                   THEN "close of closed channel" ELSE panicked

\* An Unsubscribe that closes the endpoint it was given, listed or not.
UnsubFindClose(p) ==
    /\ At(p, "unsub_find")
    /\ LET t == op[p].q
           i == IndexOf(subs[t], op[p].ep) IN
       /\ subs' = [subs EXCEPT ![t] = IF i = 0 THEN @ ELSE RemoveAt(@, i)]
       /\ CloseChans({op[p].ep})
       /\ Step(p, "unsub_count")
       /\ UNCHANGED lock
    /\ UNCHANGED <<lifeVars, queueVars, metrics, mlock, dlqVars, topics, chbuf,
                   nextEp, callVars>>

\* for i, sub := range subMgr.subscribers { if sub == subscriber { remove it;
\* close(sub); ... } }; when it is not in the list: return nil, unlocking
UnsubFind(p) ==
    /\ At(p, "unsub_find")
    /\ LET t == op[p].q
           i == IndexOf(subs[t], op[p].ep) IN
       IF i = 0
       THEN /\ WUnlock(p, t)
            /\ Return(p, "")
            /\ UNCHANGED <<subs, chclosed, panicked, hist>>
       ELSE /\ subs' = [subs EXCEPT ![t] = RemoveAt(@, i)]
            /\ CloseChans({op[p].ep})
            /\ Step(p, "unsub_count")
            /\ UNCHANGED lock
    /\ UNCHANGED <<lifeVars, queueVars, metrics, mlock, dlqVars, topics, chbuf,
                   nextEp, callVars>>

\* atomic.AddInt32(&b.metrics.ActiveConsumers, -1); break; return nil, unlocking
UnsubCount(p) ==
    /\ At(p, "unsub_count")
    /\ metrics' = [metrics EXCEPT !.ActiveConsumers = @ - 1]
    /\ WUnlock(p, op[p].q)
    /\ Return(p, "")
    /\ UNCHANGED <<mlock, lifeVars, queueVars, dlqVars, topics, subs, chbuf,
                   chclosed, nextEp, panicked, callVars, hist>>

\* --------------------------------------------------------------- Publish
CallPublish(p, t) ==
    /\ Begin(p, "publish", t, NewMessage(nextId + 1, BodyOf(nextId + 1), ""), NoEp, 0,
             "pub_check")
    /\ nextId' = nextId + 1
    /\ UNCHANGED brokerVars

\* if atomic.LoadInt32(&b.closed) == 1 { return error }
PubCheck(p) ==
    /\ At(p, "pub_check")
    /\ IF IsClosed
       THEN Return(p, "closed") /\ UNCHANGED hist
       ELSE /\ Step(p, "pub_total")
            /\ hist' = [hist EXCEPT !.pubs = @ + 1]
    /\ UNCHANGED <<brokerVars, callVars>>

\* A Publish that does not count its message.
PubTotalSkip(p) ==
    /\ At(p, "pub_total")
    /\ Step(p, "pub_load")
    /\ UNCHANGED <<metrics, mlock, lifeVars, queueVars, dlqVars, subVars, panicked,
                   callVars, hist>>

\* b.metrics.IncrementTotalMessages()
PubTotal(p) ==
    /\ At(p, "pub_total")
    /\ metrics' = [metrics EXCEPT !.TotalMessages = @ + 1]
    /\ Step(p, "pub_load")
    /\ UNCHANGED <<mlock, lifeVars, queueVars, dlqVars, subVars, panicked,
                   callVars, hist>>

\* A Publish that makes the topic record it does not find.
PubLoadCreate(p) ==
    /\ At(p, "pub_load")
    /\ topics' = topics \cup {op[p].q}
    /\ Step(p, "pub_rlock")
    /\ UNCHANGED <<lifeVars, queueVars, metrics, mlock, dlqVars, subs, lock,
                   chbuf, chclosed, nextEp, panicked, callVars, hist>>

\* subMgrInterface, exists := b.subscribers.Load(topic); if !exists { return nil }
PubLoad(p) ==
    /\ At(p, "pub_load")
    /\ IF op[p].q \notin topics
       THEN /\ Return(p, "")
            /\ hist' = [hist EXCEPT !.lost = @ \cup {<<op[p].msg.ID, op[p].q>>}]
       ELSE Step(p, "pub_rlock") /\ UNCHANGED hist
    /\ UNCHANGED <<brokerVars, callVars>>

\* subMgr.mu.RLock(); defer subMgr.mu.RUnlock()
PubRLock(p) ==
    /\ At(p, "pub_rlock")
    /\ RLock(p, op[p].q)
    /\ tmp' = [tmp EXCEPT ![p].i = 1]
    /\ Goto(p, "pub_send")
    /\ UNCHANGED <<lifeVars, queueVars, metrics, mlock, dlqVars, topics, subs,
                   chbuf, chclosed, nextEp, panicked, op, ret, callVars, hist>>

\* A Publish whose send waits for room in the subscriber's buffer.
PubSendBlock(p) ==
    /\ At(p, "pub_send")
    /\ tmp[p].i <= Len(subs[op[p].q])
    /\ LET e == subs[op[p].q][tmp[p].i] IN
       /\ Len(chbuf[e]) < SubCap
       /\ chbuf' = [chbuf EXCEPT ![e] = Append(@, op[p].msg)]
       /\ tmp' = [tmp EXCEPT ![p].i = @ + 1]
    /\ UNCHANGED <<lifeVars, queueVars, metrics, mlock, dlqVars, topics, subs,
                   lock, chclosed, nextEp, panicked, pc, op, ret, callVars,
                   hist>>

\* A Publish that leaves the range after the first subscriber.
PubSendFirst(p) ==
    /\ At(p, "pub_send")
    /\ tmp[p].i <= Len(subs[op[p].q])
    /\ LET e == subs[op[p].q][tmp[p].i] IN
       /\ chbuf' = [chbuf EXCEPT
                      ![e] = IF Len(@) < SubCap THEN Append(@, op[p].msg) ELSE @]
       /\ tmp' = [tmp EXCEPT ![p].i = Len(subs[op[p].q]) + 1]
    /\ UNCHANGED <<lifeVars, queueVars, metrics, mlock, dlqVars, topics, subs,
                   lock, chclosed, nextEp, panicked, pc, op, ret, callVars,
                   hist>>

\* for _, subscriber := range subMgr.subscribers {
\*     select { case subscriber <- msg: default: } }
\* A send on a closed channel panics; a send on a full one is not ready.
PubSend(p) ==
    /\ At(p, "pub_send")
    /\ tmp[p].i <= Len(subs[op[p].q])
    /\ LET e == subs[op[p].q][tmp[p].i] IN
       IF chclosed[e]
       THEN /\ panicked' = "send on closed channel"
            /\ UNCHANGED <<chbuf, tmp>>
       ELSE /\ chbuf' = [chbuf EXCEPT
                           ![e] = IF Len(@) < SubCap THEN Append(@, op[p].msg) ELSE @]
            /\ tmp' = [tmp EXCEPT ![p].i = @ + 1]
            /\ UNCHANGED panicked
    /\ UNCHANGED <<lifeVars, queueVars, metrics, mlock, dlqVars, topics, subs,
                   lock, chclosed, nextEp, pc, op, ret, callVars, hist>>

\* the end of the range: return nil, unlocking
PubReturn(p) ==
    /\ At(p, "pub_send")
    /\ tmp[p].i > Len(subs[op[p].q])
    /\ RUnlock(p, op[p].q)
    /\ Return(p, "")
    /\ UNCHANGED <<lifeVars, queueVars, metrics, mlock, dlqVars, topics, subs,
                   chbuf, chclosed, nextEp, panicked, callVars, hist>>

\* the subscriber reads one message from its endpoint
Consume(e) ==
    /\ Running
    /\ chbuf[e] # <<>>
    /\ chbuf' = [chbuf EXCEPT ![e] = Tail(@)]
    /\ UNCHANGED <<lifeVars, queueVars, metrics, mlock, dlqVars, topics, subs,
                   lock, chclosed, nextEp, panicked, pc, op, tmp, ret, callVars,
                   hist>>

\* ------------------------------------------------------ IsHealthy, Close
\* return atomic.LoadInt32(&b.closed) == 0
IsHealthy == closed = 0

CallClose(p) ==
    /\ Begin(p, "close", "", NoMsg, NoEp, 0, "close_cas")
    /\ UNCHANGED <<brokerVars, nextId>>

\* a store in place of the compare-and-swap
CasClosedBlind == closed' = 1

\* atomic.CompareAndSwapInt32(&b.closed, 0, 1)
CasClosed == closed = 0 /\ closed' = 1

\* if !atomic.CompareAndSwapInt32(&b.closed, 0, 1) { return error }
CloseCas(p) ==
    /\ At(p, "close_cas")
    /\ \/ CasClosed /\ Step(p, "close_cancel")
       \/ ~ENABLED CasClosed /\ UNCHANGED closed /\ Return(p, "already_closed")
    /\ UNCHANGED <<cancelled, queueVars, metrics, mlock, dlqVars, subVars,
                   panicked, callVars, hist>>

\* a Close that does not call b.cancel()
CloseCancelMissing(p) ==
    /\ At(p, "close_cancel")
    /\ tmp' = [tmp EXCEPT ![p].must = topics]
    /\ Goto(p, "close_range")
    /\ UNCHANGED <<brokerVars, op, ret, callVars, hist>>

\* b.cancel(): b.ctx and the contexts derived from it are done; the goroutines
\* parked in a pull are woken with the ctx.Done() case. Then
\* b.subscribers.Range begins: it visits every topic present now.
CloseCancel(p) ==
    /\ At(p, "close_cancel")
    /\ cancelled' = TRUE
    /\ recvq' = [q \in Queues |-> <<>>]
    /\ pc' = [r \in Procs |->
                IF r = p THEN "close_range"
                ELSE IF pc[r] = "pull_parked" THEN "pull_woken" ELSE pc[r]]
    /\ tmp' = [tmp EXCEPT ![p].must = topics]
    /\ UNCHANGED <<closed, qset, buf, stats, qmetrics, metrics, mlock, dlqVars,
                   subVars, panicked, op, ret, callVars, hist>>

\* Range calls the function for a topic not visited yet (one stored during the
\* Range may or may not be visited): subMgr.mu.Lock()
CloseLock(p, t) ==
    /\ At(p, "close_range")
    /\ t \in topics \ tmp[p].seen
    /\ WLock(p, t)
    /\ op' = [op EXCEPT ![p].q = t]
    /\ tmp' = [tmp EXCEPT ![p].seen = @ \cup {t}]
    /\ Goto(p, "close_topic")
    /\ UNCHANGED <<lifeVars, queueVars, metrics, mlock, dlqVars, topics, subs,
                   chbuf, chclosed, nextEp, panicked, ret, callVars, hist>>

\* for _, subscriber := range subMgr.subscribers { close(subscriber) }; Unlock()
CloseTopic(p) ==
    /\ At(p, "close_topic")
    /\ CloseChans({subs[op[p].q][i] : i \in 1..Len(subs[op[p].q])})
    /\ WUnlock(p, op[p].q)
    /\ Step(p, "close_range")
    /\ UNCHANGED <<lifeVars, queueVars, metrics, mlock, dlqVars, topics, subs,
                   chbuf, nextEp, callVars>>

\* the Range is over once every topic it had to visit was visited: return nil
CloseReturn(p) ==
    /\ At(p, "close_range")
    /\ tmp[p].must \subseteq tmp[p].seen
    /\ Return(p, "")
    /\ hist' = [hist EXCEPT !.closeOk = @ + 1]
    /\ UNCHANGED <<brokerVars, callVars>>

\* ------------------------------------------------------- specifications
PushSteps(p) ==
    \/ PushCheck(p) \/ PushCreate(p) \/ PushActive(p) \/ PushStore(p)
    \/ PushSend(p) \/ PushCount(p) \/ PushEnq(p) \/ PushTotal(p)

DlqSteps(p) ==
    \/ DlqLoad(p) \/ DlqStore(p) \/ DlqCount(p) \/ DlqFailed(p)

PullSteps(p) ==
    \/ PullCheck(p) \/ PullLoad(p) \/ PullTry(p)
    \/ PullCount(p) \/ PullDeq(p) \/ PullProc(p)

BlockingPullSteps(p) ==
    \/ PullSelectRecv(p) \/ PullSelectDone(p) \/ PullPark(p)
    \/ TimerFire(p) \/ PullWoken(p)

PurgeSteps(p) ==
    \/ PurgeLoad(p) \/ PurgeRecv(p) \/ PurgeCount(p)

RepSteps(p) ==
    \/ RepLoad(p) \/ RepStore(p)

SubSteps(p) ==
    \/ SubCheck(p) \/ SubStore(p) \/ SubLock(p) \/ SubAppend(p) \/ SubCount(p)

UnsubSteps(p) ==
    \/ UnsubLoad(p) \/ UnsubLock(p) \/ UnsubFind(p) \/ UnsubCount(p)

PubSteps(p) ==
    \/ PubCheck(p) \/ PubTotal(p) \/ PubLoad(p) \/ PubRLock(p)
    \/ PubSend(p) \/ PubReturn(p)

CloseSteps(p) ==
    \/ CloseCas(p) \/ CloseCancel(p) \/ CloseReturn(p) \/ CloseTopic(p)
    \/ \E t \in Topics : CloseLock(p, t)

\* The queue and dead-letter engine of an open broker.
Init == InitBroker /\ chcap = QueueCap /\ quota = MaxCalls

Next ==
    \E p \in Procs :
        \/ \E q \in Queues : CallPush(p, q)
        \/ \E q \in Queues : CallPull(p, q)
        \/ \E q \in Queues : CallPurgeQueue(p, q)
        \/ \E q \in Queues : CallMoveToDLQ(p, q)
        \/ \E q \in Queues : \E id \in 1..nextId : CallReprocessDLQ(p, q, id)
        \/ PushSteps(p) \/ DlqSteps(p) \/ PullSteps(p) \/ PurgeSteps(p)
        \/ RepSteps(p)

Spec == Init /\ [][Next]_vars

\* Producers only: concurrent pushes into a fresh queue.
InitPush == InitBroker /\ chcap = QueueCap /\ quota = MaxCallsPush

NextPush ==
    \E p \in Procs :
        \/ \E q \in Queues : CallPush(p, q)
        \/ PushSteps(p) \/ DlqSteps(p)

SpecPush == InitPush /\ [][NextPush]_vars

\* The dead-letter store: MoveToDLQ, Pushes that overflow, ReprocessDLQ and
\* GetDLQ.
InitDlq == InitBroker /\ chcap = QueueCap /\ quota = MaxCallsDlq

NextDlq ==
    \E p \in Procs :
        \/ \E q \in Queues : CallPush(p, q)
        \/ \E q \in Queues : CallMoveToDLQ(p, q)
        \/ \E q \in Queues : \E id \in 1..nextId : CallReprocessDLQ(p, q, id)
        \/ \E q \in Queues : CallGetDLQ(p, q)
        \/ PushSteps(p) \/ DlqSteps(p) \/ RepSteps(p) \/ GetDlqLoad(p)

SpecDlq == InitDlq /\ [][NextDlq]_vars

\* All the operations but the pull that waits, on one queue and one topic. A
\* goroutine that can take a step of its call eventually takes one.
InitAll == InitBroker /\ chcap = QueueCap /\ quota = MaxCallsAll

AllSteps(p) ==
    \/ PushSteps(p) \/ DlqSteps(p) \/ PullSteps(p) \/ PurgeSteps(p)
    \/ RepSteps(p) \/ SubSteps(p) \/ UnsubSteps(p) \/ PubSteps(p)
    \/ CloseSteps(p) \/ GetDlqLoad(p) \/ StatsRLock(p) \/ StatsRead(p)

NextAll ==
    \E p \in Procs :
        \/ CallClose(p)
        \/ CallGetStats(p)
        \/ \E q \in Queues : CallPush(p, q)
        \/ \E q \in Queues : CallPull(p, q)
        \/ \E q \in Queues : CallPurgeQueue(p, q)
        \/ \E q \in Queues : CallMoveToDLQ(p, q)
        \/ \E q \in Queues : \E id \in 1..nextId : CallReprocessDLQ(p, q, id)
        \/ \E q \in Queues : CallGetDLQ(p, q)
        \/ \E t \in Topics : CallPublish(p, t)
        \/ \E t \in Topics : CallSubscribe(p, t)
        \/ \E t \in Topics : \E e \in Endpoints : CallUnsubscribe(p, t, e)
        \/ AllSteps(p)

SpecAll == InitAll /\ [][NextAll]_vars /\ \A p \in Procs : WF_vars(AllSteps(p))

\* The lifecycle: Close against the admission and delivery methods.
InitLife == InitBroker /\ chcap = QueueCap /\ quota = MaxCallsLife

NextLife ==
    \E p \in Procs :
        \/ CallClose(p)
        \/ \E q \in Queues : CallPush(p, q)
        \/ \E q \in Queues : CallPull(p, q)
        \/ \E q \in Queues : CallPullWithTimeout(p, q, 1)
        \/ \E t \in Topics : CallPublish(p, t)
        \/ \E t \in Topics : CallSubscribe(p, t)
        \/ PushSteps(p) \/ DlqSteps(p) \/ PullSteps(p) \/ BlockingPullSteps(p)
        \/ SubSteps(p) \/ PubSteps(p) \/ CloseSteps(p)

SpecLife == InitLife /\ [][NextLife]_vars

\* The lifecycle: Close against the other mutating methods.
InitAdmin == InitBroker /\ chcap = QueueCap /\ quota = MaxCallsAdmin

NextAdmin ==
    \E p \in Procs :
        \/ CallClose(p)
        \/ \E q \in Queues : CallPush(p, q)
        \/ \E q \in Queues : CallPurgeQueue(p, q)
        \/ \E q \in Queues : CallMoveToDLQ(p, q)
        \/ \E q \in Queues : \E id \in 1..nextId : CallReprocessDLQ(p, q, id)
        \/ \E t \in Topics : CallSubscribe(p, t)
        \/ \E t \in Topics : \E e \in Endpoints : CallUnsubscribe(p, t, e)
        \/ PushSteps(p) \/ DlqSteps(p) \/ PurgeSteps(p) \/ RepSteps(p)
        \/ SubSteps(p) \/ UnsubSteps(p) \/ CloseSteps(p)

SpecAdmin == InitAdmin /\ [][NextAdmin]_vars

\* The pub/sub engine and Close.
InitPubSub == InitBroker /\ chcap = QueueCap /\ quota = MaxCallsPubSub

NextPubSub ==
    \/ \E p \in Procs :
        \/ CallClose(p)
        \/ \E t \in Topics : CallPublish(p, t)
        \/ \E t \in Topics : CallSubscribe(p, t)
        \/ \E t \in Topics : \E e \in Endpoints : CallUnsubscribe(p, t, e)
        \/ SubSteps(p) \/ UnsubSteps(p) \/ PubSteps(p) \/ CloseSteps(p)
    \/ \E e \in Endpoints : Consume(e)

SpecPubSub == InitPubSub /\ [][NextPubSub]_vars

\* Subscribe, Unsubscribe and Publish on two topics of an open broker. No
\* subscriber reads, so an endpoint's buffer holds all it was ever sent.
InitTopic == InitBroker /\ chcap = QueueCap /\ quota = MaxCallsTopic

NextTopic ==
    \E p \in Procs :
        \/ \E t \in AllTopics : CallPublish(p, t)
        \/ \E t \in AllTopics : CallSubscribe(p, t)
        \/ \E t \in AllTopics : \E e \in Endpoints : CallUnsubscribe(p, t, e)
        \/ SubSteps(p) \/ UnsubSteps(p) \/ PubSteps(p)

SpecTopic == InitTopic /\ [][NextTopic]_vars

\* The blocking pull against Push and Close; a goroutine that can take a
\* step of its call eventually takes one. The deadline of a pull is as far
\* away as one likes: nothing forces TimerFire.
InitFair == InitBroker /\ chcap = QueueCap /\ quota = MaxCallsFair

\* No topic has a subscriber here: the Range of Close visits nothing.
ProgramStep(p) ==
    \/ PushSteps(p) \/ DlqSteps(p)
    \/ PullCheck(p) \/ PullLoad(p)
    \/ PullSelectRecv(p) \/ PullSelectDone(p) \/ PullPark(p) \/ PullWoken(p)
    \/ PullCount(p) \/ PullDeq(p) \/ PullProc(p)
    \/ CloseCas(p) \/ CloseCancel(p) \/ CloseReturn(p)

NextFair ==
    \E p \in Procs :
        \/ CallClose(p)
        \/ \E q \in Queues : CallPush(p, q)
        \/ \E q \in Queues : CallPullWithTimeout(p, q, 1)
        \/ ProgramStep(p)
        \/ TimerFire(p)

SpecFair ==
    InitFair /\ [][NextFair]_vars /\ \A p \in Procs : WF_vars(ProgramStep(p))

\* Push against PullWithTimeout with a negative, a zero and a positive
\* duration.
Timeouts == {-1, 0, 1}

InitPull == InitBroker /\ chcap = QueueCap /\ quota = MaxCallsPull

NextPull ==
    \E p \in Procs :
        \/ \E q \in Queues : CallPush(p, q)
        \/ \E q \in Queues : \E tmo \in Timeouts : CallPullWithTimeout(p, q, tmo)
        \/ PushSteps(p) \/ DlqSteps(p) \/ PullSteps(p) \/ BlockingPullSteps(p)

SpecPull == InitPull /\ [][NextPull]_vars

\* An open broker where time passes: a goroutine that can take a step of
\* its call eventually takes one, and the deadline of a pull's context
\* eventually comes.
InitTimed == InitBroker /\ chcap = QueueCap /\ quota = MaxCallsTimed

TimedStep(p) ==
    PushSteps(p) \/ DlqSteps(p) \/ PullSteps(p) \/ BlockingPullSteps(p)

NextTimed ==
    \E p \in Procs :
        \/ \E q \in Queues : CallPush(p, q)
        \/ \E q \in Queues : \E tmo \in {0, 1} : CallPullWithTimeout(p, q, tmo)
        \/ TimedStep(p)

SpecTimed ==
    InitTimed /\ [][NextTimed]_vars /\ \A p \in Procs : WF_vars(TimedStep(p))

\* One producer and one consumer on one queue: goroutine 1 only pushes,
\* goroutine 2 only pulls, each call after the goroutine's previous one.
Producer == 1

Consumer == 2

ProducerPush(q) ==
    /\ Start(Producer, "push", q, HostMessage(nextId + 1), NoEp, 0, "push_check")
    /\ nextId' = nextId + 1
    /\ UNCHANGED brokerVars

ConsumerPull(q, tmo) ==
    /\ Start(Consumer, IF tmo = 0 THEN "pull" ELSE "pullWithTimeout", q, NoMsg, NoEp,
             tmo, "pull_check")
    /\ UNCHANGED <<brokerVars, nextId>>

InitFifo == InitBroker /\ chcap = FifoCap /\ quota = MaxCallsFifo

NextFifo ==
    \/ \E q \in Queues : ProducerPush(q)
    \/ \E q \in Queues : \E tmo \in {0, 1} : ConsumerPull(q, tmo)
    \/ PushSteps(Producer) \/ DlqSteps(Producer)
    \/ PullSteps(Consumer) \/ BlockingPullSteps(Consumer)

SpecFifo == InitFifo /\ [][NextFifo]_vars

\* Producers fill a queue, then consumers drain it: the Pushes run together
\* and have all returned before the first Pull begins, and the Pulls run
\* together.
PullPhase == \E p \in Procs : op[p].name = "pull" \/ ret[p].name = "pull"

InitDrain == InitBroker /\ chcap = DrainCap /\ quota = MaxCallsDrain

NextDrain ==
    \E p \in Procs :
        \/ ~PullPhase /\ \E q \in Queues : CallPush(p, q)
        \/ /\ nextId > 0
           /\ \A r \in Procs : op[r].name # "push"
           /\ \E q \in Queues : CallPull(p, q)
        \/ PushSteps(p) \/ DlqSteps(p) \/ PullSteps(p)

SpecDrain == InitDrain /\ [][NextDrain]_vars

\* One goroutine pushes into one queue whose buffer has the size the code
\* gives it. AfterPushes(k) is the broker after that goroutine has made k
\* Pushes (k > 0) into a fresh queue with room for them, one after the other:
\* every message is in the buffer and counted, every Push has run
\* createMessageQueue, and only the first stored its queue.
AfterPushes(k) ==
    /\ closed = 0
    /\ cancelled = FALSE
    /\ qset = {"q"}
    /\ buf = [q \in Queues |-> [i \in 1..k |-> [HostMessage(i) EXCEPT !.Queue = q]]]
    /\ recvq = [q \in Queues |-> <<>>]
    /\ stats = [q \in Queues |->
                  [ZeroStats EXCEPT !.MessageCount = k, !.EnqueuedTotal = k]]
    /\ qmetrics = [q \in Queues |-> IF k = 1 THEN "live" ELSE "orphan"]
    /\ metrics = [NewMetrics EXCEPT !.TotalMessages = k, !.ActiveQueues = k]
    /\ mlock = {}
    /\ dlqset = {}
    /\ dlqhdr = [q \in Queues |-> NoSlice]
    /\ heap = <<>>
    /\ topics = {}
    /\ subs = [t \in AllTopics |-> <<>>]
    /\ lock = [t \in AllTopics |-> [w |-> 0, r |-> {}]]
    /\ chbuf = [e \in Endpoints |-> <<>>]
    /\ chclosed = [e \in Endpoints |-> FALSE]
    /\ nextEp = 0
    /\ panicked = ""
    /\ pc = [p \in Procs |-> "idle"]
    /\ op = [p \in Procs |-> NoOp]
    /\ tmp = [p \in Procs |-> NoTmp]
    /\ ret = [p \in Procs |-> IF p = 1 THEN [NoRet EXCEPT !.name = "push"] ELSE NoRet]
    /\ nextId = k
    /\ hist = [NoHist EXCEPT !.pushed = 1..k, !.sent = k]

InitCap == AfterPushes(ChanCap - 1) /\ chcap = ChanCap /\ quota = MaxCallsCap

NextCap ==
    \/ \E q \in Queues : CallPush(1, q)
    \/ PushSteps(1)
    \/ DlqSteps(1)

SpecCap == InitCap /\ [][NextCap]_vars

\* ----------------------------------------------------------- properties
Idle == \A p \in Procs : pc[p] = "idle"

\* occurrences of the message id in a sequence of messages
Occ(s, id) == Cardinality({i \in 1..Len(s) : s[i].ID = id})

Min(a, b) == IF a < b THEN a ELSE b

Max(a, b) == IF a > b THEN a ELSE b

\* goroutine p takes a step of the call it is in
Steps(p) == pc[p] # "idle" /\ pc'[p] # pc[p]

\* a call that began after a Close returned nil: each of its steps is the
\* return of the closed-broker error, with no message and no endpoint, and
\* leaves the broker as it was
Refused(p) ==
    /\ pc'[p] = "idle"
    /\ ret'[p].err = "closed"
    /\ ~ret'[p].has
    /\ ret'[p].ep = NoEp
    /\ UNCHANGED brokerVars

\* C11: the buffer of a queue holds exactly 1024 messages: no Push is
\* diverted to the DLQ while the buffer holds fewer, and after 1025 Pushes
\* of distinct messages into a fresh queue, with no pull, the depth is 1024,
\* the first 1024 messages are in the buffer in order, exactly the 1025th is
\* in the DLQ with Attempts 1, FailedMessages is 1 and ProcessedMessages 0.
C11_BufferHolds1024 ==
    \A q \in Queues :
        /\ Len(buf[q]) <= 1024
        /\ (hist.over > 0 \/ dlq[q] # <<>>) => Len(buf[q]) = 1024
        /\ (Idle /\ nextId = 1025) =>
              /\ stats[q].MessageCount = 1024
              /\ [i \in 1..Len(buf[q]) |-> buf[q][i].ID] = [i \in 1..1024 |-> i]
              /\ Len(dlq[q]) = 1
              /\ dlq[q][1].ID = 1025
              /\ dlq[q][1].Attempts = 1
              /\ metrics.FailedMessages = 1
              /\ metrics.ProcessedMessages = 0

\* C12: with one producer and one consumer on a queue, the messages the
\* successful pulls return come in the order of their Pushes (ids grow with
\* the Pushes), and none is passed over: when a message is returned, every
\* message pushed before it was returned before it or is in the DLQ.
C12_Fifo ==
    LET g == hist.got IN
    /\ \A i \in 1..(Len(g) - 1) : g[i] < g[i + 1]
    /\ \A i \in 1..Len(g) : \A j \in 1..(g[i] - 1) :
          \/ \E k \in 1..(i - 1) : g[k] = j
          \/ \E q \in Queues : Occ(dlq[q], j) = 1

C12_Witness ==
    /\ Len(hist.got) >= 2
    /\ \E q \in Queues : buf[q] # <<>>

\* C13: no message is returned by two pulls, and a pull returns only a
\* message whose Push returned nil. After N Pushes, N not above the
\* capacity, have returned, concurrent non-blocking Pulls that number at
\* least N return the N messages between them, each once.
PullAttempts == MaxCallsDrain - quota - nextId

C13_AtMostOnce ==
    LET g == hist.got IN
    /\ \A i, j \in 1..Len(g) : g[i] = g[j] => i = j
    /\ \A i \in 1..Len(g) : g[i] \in hist.pushed
    /\ (Idle /\ nextId <= chcap /\ PullAttempts >= nextId) =>
          /\ {g[i] : i \in 1..Len(g)} = 1..nextId
          /\ \A q \in Queues : buf[q] = <<>> /\ dlq[q] = <<>>

C13_Witness ==
    /\ nextId <= chcap
    /\ \E p, r \in Procs :
          /\ p # r
          /\ pc[p] = "pull_count" /\ pc[r] = "pull_count"
          /\ tmp[p].m.ID # tmp[r].m.ID

\* C14: a message a pull returns has the id, the payload, the headers and
\* the retry limit its host gave it, no attempt counted, and the name of a
\* queue of the broker in its Queue field in place of what the host wrote.
C14_PulledAsPushed ==
    \A p \in Procs :
        ret[p].has =>
            /\ ret[p].msg.ID \in 1..nextId
            /\ ret[p].msg.Queue \in Queues
            /\ ret[p].msg = [HostMessage(ret[p].msg.ID) EXCEPT
                                !.Queue = ret[p].msg.Queue]

C14_Witness ==
    \E p \in Procs :
        /\ ret[p].has
        /\ ret[p].msg.ID \in hist.pushed
        /\ ret[p].msg.Headers = HeadersOf(ret[p].msg.ID)

\* C15: in every state, those in the middle of running Pushes, pulls and
\* purges included, the depth of a queue is the number of messages in its
\* buffer: never negative, never above the capacity.
C15_DepthIsBufferLength ==
    \A q \in Queues :
        /\ stats[q].MessageCount = Len(buf[q])
        /\ stats[q].MessageCount >= 0
        /\ stats[q].MessageCount <= chcap

\* C16, as stated: whenever no call is in progress, the enqueued total of a queue is
\* its dequeued total, plus its depth, plus the messages purges discarded,
\* plus the Pushes diverted to the DLQ because the buffer was full.
C16_Conservation ==
    Idle =>
        \A q \in Queues :
            stats[q].EnqueuedTotal =
                stats[q].DequeuedTotal + stats[q].MessageCount + hist.purged
                + hist.over

\* C16, as the code keeps it: whenever no call is in progress, the enqueued
\* total of a queue is its dequeued total, plus its depth, plus the messages
\* purges discarded; a Push diverted to the DLQ is not counted as enqueued.
C16_ConservationAdmitted ==
    Idle =>
        \A q \in Queues :
            stats[q].EnqueuedTotal =
                stats[q].DequeuedTotal + stats[q].MessageCount + hist.purged

C16_Witness ==
    /\ Idle
    /\ hist.over > 0
    /\ \E q \in Queues : stats[q].DequeuedTotal + hist.purged > 0

\* C17: every pull that has returned a message has, by its return, taken
\* one from the depth of its queue and added one to the dequeued total and
\* one to ProcessedMessages, and nothing else moves them: a pull that returns
\* no message (empty or unknown queue, timeout, closed broker) changes none.
\* So with no purge, in every state, ProcessedMessages is the number of
\* messages returned, the dequeued total is that number plus the pulls about
\* to return one, and the depth is what the Pushes counted less what the
\* pulls took. After one Push and one pull on a fresh queue the stats are
\* depth 0, enqueued 1, dequeued 1.
NumAt(q, labels) ==
    Cardinality({p \in Procs : op[p].q = q /\ pc[p] \in labels})

C17_PullCounts ==
    /\ metrics.ProcessedMessages = Len(hist.got)
    /\ \A q \in Queues :
          /\ stats[q].DequeuedTotal = Len(hist.got) + NumAt(q, {"pull_proc"})
          /\ stats[q].MessageCount =
                stats[q].EnqueuedTotal + NumAt(q, {"push_enq"})
                - Len(hist.got) - NumAt(q, {"pull_deq", "pull_proc"})
          /\ (Idle /\ nextId = 1 /\ Len(hist.got) = 1) =>
                stats[q] = [ZeroStats EXCEPT !.EnqueuedTotal = 1,
                                             !.DequeuedTotal = 1]

C17_Witness ==
    /\ Len(hist.got) = 1
    /\ \E p, r \in Procs :
          /\ ret[p].has
          /\ ret[r].name \in {"pull", "pullWithTimeout"}
          /\ ret[r].err \in {"timeout", "closed", "unknown_queue"}

\* C18: Pull and PullWithTimeout never create a queue: no step of theirs
\* changes the registry; on an open broker, for a name no Push has stored,
\* they return the unknown-queue error and no message; and the non-blocking
\* Pull on a queue whose buffer is empty returns no message and no error and
\* changes nothing.
C18_PullNeverCreates ==
    [][\A p \in Procs :
          (Steps(p) /\ op[p].name \in {"pull", "pullWithTimeout"}) =>
              /\ qset' = qset
              /\ (pc[p] = "pull_load" /\ op[p].q \notin qset) =>
                    /\ pc'[p] = "idle"
                    /\ ret'[p].err = "unknown_queue"
                    /\ ~ret'[p].has
                    /\ UNCHANGED brokerVars
              /\ (pc[p] = "pull_try" /\ buf[op[p].q] = <<>>) =>
                    /\ pc'[p] = "idle"
                    /\ ret'[p].err = ""
                    /\ ~ret'[p].has
                    /\ UNCHANGED brokerVars]_vars

C18_Witness ==
    \E p \in Procs :
        /\ ret[p].name = "pullWithTimeout"
        /\ ret[p].err = "unknown_queue"
        /\ qset = {}

\* C19: PullWithTimeout with a duration that is not positive does what the
\* non-blocking Pull does: it never returns the timeout error, it takes the
\* head of the buffer when there is one, and it returns no message and no
\* error when the buffer is empty.
C19_NonPositiveIsNonBlocking ==
    [][\A p \in Procs :
          (Steps(p) /\ op[p].name = "pullWithTimeout" /\ op[p].tmo <= 0) =>
              /\ pc'[p] = "idle" => ret'[p].err # "timeout"
              /\ (pc[p] \in {"pull_try", "pull_select"} /\ buf[op[p].q] # <<>>) =>
                    /\ pc'[p] = "pull_count"
                    /\ tmp'[p].m = Head(buf[op[p].q])
              /\ (pc[p] \in {"pull_try", "pull_select"} /\ buf[op[p].q] = <<>>) =>
                    /\ pc'[p] = "idle"
                    /\ ret'[p].err = ""
                    /\ ~ret'[p].has]_vars

\* C20: on an open broker a PullWithTimeout with a positive duration that is
\* parked on an existing, empty queue eventually returns the timeout error
\* and no message, unless a Push hands it a message first; and a pull that
\* returns the timeout error leaves the buffers and every counter as they
\* were.
C20_TimeoutOnEmpty ==
    /\ \A p \in Procs :
          (pc[p] = "pull_parked" /\ op[p].tmo > 0)
          ~> \/ pc[p] = "idle" /\ ret[p].err = "timeout" /\ ~ret[p].has
             \/ pc[p] = "pull_count"
    /\ [][\A p \in Procs :
            (Steps(p) /\ pc'[p] = "idle" /\ ret'[p].err = "timeout") =>
                UNCHANGED <<buf, stats, metrics, dlq>>]_vars

C20_Witness ==
    \E p \in Procs :
        /\ pc[p] = "pull_woken"
        /\ tmp[p].timer
        /\ ~cancelled
        /\ op[p].q \in qset
        /\ buf[op[p].q] = <<>>

\* C29: a MoveToDLQ called by the host returns nil; its store step puts the
\* message, with one attempt more than it was given, behind the entries the
\* DLQ of the queue holds at that step, making the DLQ if there is none; the
\* call adds one to the failed counter, and one to the queue's dead-letter
\* counter exactly when the queue exists; no step of it makes a queue or
\* changes a buffer.
C29_MoveToDLQAppends ==
    [][\A p \in Procs :
          (Steps(p) /\ op[p].name = "moveToDLQ") =>
             /\ qset' = qset /\ buf' = buf
             /\ pc[p] = "dlq_load" => op'[p].msg.Attempts = op[p].msg.Attempts + 1
             /\ pc[p] = "dlq_store" =>
                   /\ op[p].q \in dlqset'
                   /\ dlq'[op[p].q] = Append(dlq[op[p].q], op[p].msg)
             /\ pc[p] = "dlq_count" =>
                   stats'[op[p].q].DeadLetterCount =
                      stats[op[p].q].DeadLetterCount
                      + (IF op[p].q \in qset THEN 1 ELSE 0)
             /\ pc[p] = "dlq_failed" =>
                   /\ metrics'.FailedMessages = metrics.FailedMessages + 1
                   /\ pc'[p] = "idle"
                   /\ ret'[p].err = ""]_vars

\* C34: whenever no call is in progress on an open broker, the active-queues
\* counter is the number of queue records in the registry, so a Push to a
\* queue that has a record has left the counter as it was.
C34_ActiveQueuesIsRegistrySize ==
    Idle => metrics.ActiveQueues = Cardinality(qset)

\* C40: whenever no call is in progress, the total-messages counter is the
\* number of messages Pushes sent into a queue's channel plus the number of
\* Publishes that found the broker open (a Push diverted to the DLQ is not
\* in it), the processed counter is the sum of the queues' dequeued totals,
\* and the failed counter is the number of entries MoveToDLQ stored.
C40_GlobalCounters ==
    Idle =>
        /\ metrics.TotalMessages = hist.sent + hist.pubs
        /\ \A q \in Queues : metrics.ProcessedMessages = stats[q].DequeuedTotal
        /\ metrics.FailedMessages = hist.dead

\* A Push was admitted, a Publish was accepted, and a message was pulled or
\* diverted to the DLQ.
C40_Witness ==
    /\ Idle
    /\ hist.sent > 0 /\ hist.pubs > 0
    /\ metrics.ProcessedMessages + metrics.FailedMessages > 0

\* C39: whenever no call is in progress, the DLQ of a queue holds as many
\* entries as MoveToDLQ stored, from the host or from a Push that found the
\* buffer full, less those ReprocessDLQ removed.
C39_DlqKeepsEntries ==
    Idle => \A q \in Queues : Len(dlq[q]) = hist.dead - hist.reps

\* C38: when a ReprocessDLQ returns an error after it has found the message
\* (the error of its inner Push on a closed broker included), the DLQ of the
\* queue holds an entry with the id of the message.
C38_FailedReprocessKeeps ==
    [][\A p \in Procs :
          (/\ op[p].name = "reprocessDLQ"
           /\ pc[p] \notin {"idle", "rep_load"}
           /\ pc'[p] = "idle"
           /\ ret'[p].err # "")
          => Occ(dlq'[op[p].q], op[p].msg.ID) >= 1]_vars

\* goroutine p holds b.metrics.mu or the lock of a subscriber manager
HoldsLock(p) ==
    \/ p \in mlock
    \/ \E t \in AllTopics : lock[t].w = p \/ p \in lock[t].r

\* C37: while the process runs, a goroutine inside a call that does not wait
\* for a message can take its next step, or else a goroutine that holds a
\* lock can take its own next step (no deadlock on the locks); and every such
\* call, a purge among them, returns once the calls there are have been made,
\* unless the process has panicked.
C37_NoDeadlock ==
    /\ [](Running =>
            \A p \in Procs :
               pc[p] # "idle" =>
                  \/ ENABLED AllSteps(p)
                  \/ \E r \in Procs \ {p} : HoldsLock(r) /\ ENABLED AllSteps(r))
    /\ \A p \in Procs : (pc[p] # "idle") ~> (pc[p] = "idle" \/ ~Running)

\* A goroutine inside its call cannot take a step: it waits for a lock that
\* another goroutine holds.
C37_Witness ==
    /\ Running
    /\ \E p \in Procs : pc[p] # "idle" /\ ~ENABLED AllSteps(p)

\* C36: the registry of a fresh broker is empty; a name enters it only in the
\* store step of a Push, called by the host or by ReprocessDLQ, on that name;
\* no step of a pull, a purge or a MoveToDLQ adds a name; a name in the
\* registry stays; and once a Push has got past its store step, the name is
\* in the registry.
C36_RegistryGrowsByPushOnly ==
    /\ [](metrics.ActiveQueues = 0 => qset = {})
    /\ [](\A p \in Procs :
            pc[p] \in {"push_send", "push_count", "push_enq", "push_total"}
            => op[p].q \in qset)
    /\ [](Idle /\ metrics.TotalMessages > 0 => qset # {})
    /\ [][/\ qset \subseteq qset'
          /\ qset' # qset =>
                \E p \in Procs :
                   /\ pc[p] = "push_store"
                   /\ op[p].name \in {"push", "reprocessDLQ"}
                   /\ qset' = qset \cup {op[p].q}]_vars

\* A pull, a purge or a MoveToDLQ has returned, a message is in the DLQ, and
\* the registry is still empty.
C36_Witness ==
    /\ Idle
    /\ qset = {}
    /\ metrics.FailedMessages > 0
    /\ \E p \in Procs : ret[p].name \in {"pull", "purge"}

\* C35: whenever no call is in progress, the entry of a queue in the
\* per-queue map of the metrics is the stats record of that queue, so the
\* depth and the enqueued, dequeued and dead-letter totals read through the
\* map are those GetQueueStats returns.
C35_QueueMetricsMirror ==
    Idle => \A q \in qset :
               /\ qmetrics[q] # "none"
               /\ (IF qmetrics[q] = "live" THEN stats[q] ELSE ZeroStats) = stats[q]

C32_ReprocessRemovesOne ==
    [][\A p \in Procs :
          (Steps(p) /\ op[p].name = "reprocessDLQ") =>
             /\ pc[p] = "rep_store" =>
                   /\ IndexOfID(dlq[op[p].q], op[p].msg.ID) # 0
                   /\ dlq'[op[p].q] =
                         RemoveAt(dlq[op[p].q],
                                  IndexOfID(dlq[op[p].q], op[p].msg.ID))
             /\ (pc[p] = "push_send" /\ Len(buf[op[p].q]) < chcap) =>
                   /\ op[p].msg.Attempts = 0
                   /\ buf'[op[p].q] = Append(buf[op[p].q], op[p].msg)]_vars

\* C31: a ReprocessDLQ that finds no DLQ for its queue returns the no-DLQ
\* error, and one that finds a DLQ with no entry of the id returns the
\* not-found error; each returns in that step and the step changes nothing of
\* the broker: no DLQ, no buffer, no counter, no queue record.
C31_ReprocessErrors ==
    [][\A p \in Procs :
          (Steps(p) /\ pc[p] = "rep_load") =>
             /\ op[p].q \notin dlqset =>
                   /\ pc'[p] = "idle" /\ ret'[p].err = "no_dlq"
                   /\ UNCHANGED brokerVars
             /\ (/\ op[p].q \in dlqset
                 /\ \A i \in 1..Len(dlq[op[p].q]) :
                       dlq[op[p].q][i].ID # op[p].msg.ID) =>
                   /\ pc'[p] = "idle" /\ ret'[p].err = "not_found"
                   /\ UNCHANGED brokerVars
             /\ (/\ op[p].q \in dlqset
                 /\ \E i \in 1..Len(dlq[op[p].q]) :
                       dlq[op[p].q][i].ID = op[p].msg.ID) =>
                   pc'[p] # "idle"]_vars

\* A ReprocessDLQ has returned the not-found error on a DLQ that holds entries.
C31_Witness ==
    /\ \E p \in Procs : ret[p].name = "reprocessDLQ" /\ ret[p].err = "not_found"
    /\ \E q \in dlqset : dlq[q] # <<>>

\* C30: the slice a GetDLQ returned shows, at any later time, the length and
\* the elements it showed when it was returned, whatever MoveToDLQ, Pushes
\* that overflow and ReprocessDLQ have done since; and it showed the DLQ of
\* that time, nothing for a queue without one.
C30_GetDLQSnapshot ==
    hist.snap.taken =>
        /\ Cells(hist.snap.s) = hist.snap.v
        /\ Len(hist.snap.v) = hist.snap.s.n

\* endpoint e is in the subscriber list of topic t
InList(t, e) == \E i \in 1..Len(subs[t]) : subs[t][i] = e

\* C28: on an open broker the active-consumers counter is the number of
\* endpoints in all subscriber lists, less the Subscribes that have appended
\* and not yet counted, plus the Unsubscribes that have removed and not yet
\* counted, so the two are equal whenever no call is in progress; an endpoint
\* is in at most one place of one list; a listed endpoint is open, and an
\* endpoint Subscribe returned that is no longer listed is closed.
C28_ActiveConsumers ==
    LET places == {x \in AllTopics \X (1..MaxEndpoints) : x[2] <= Len(subs[x[1]])}
        at(l) == Cardinality({p \in Procs : pc[p] = l})
    IN  /\ metrics.ActiveConsumers
             = Cardinality(places) - at("sub_count") + at("unsub_count")
        /\ \A x, y \in places : subs[x[1]][x[2]] = subs[y[1]][y[2]] => x = y
        /\ \A e \in Endpoints :
              /\ (\E t \in AllTopics : InList(t, e)) => ~chclosed[e]
              /\ (e \in hist.eps /\ ~\E t \in AllTopics : InList(t, e))
                 => chclosed[e]

\* Two Subscribes and an Unsubscribe have completed: one endpoint is listed,
\* the other is closed, and the counter is 1.
C28_Witness ==
    /\ Idle
    /\ metrics.ActiveConsumers = 1
    /\ \E e \in Endpoints : chclosed[e]
    /\ \E t \in AllTopics : Len(subs[t]) = 1

\* C27: an Unsubscribe that finds no record of its topic returns the
\* unknown-topic error and changes nothing; under a known topic it does not
\* return that error, and when its endpoint is not in the topic's list it
\* returns nil, and none of its steps changes a subscriber list, the closed
\* flag or the buffer of an endpoint, or the metrics.
C27_UnsubscribeUnknown ==
    [][\A p \in Procs :
          (Steps(p) /\ op[p].name = "unsubscribe") =>
             /\ (pc[p] = "unsub_load" /\ op[p].q \notin topics) =>
                   /\ pc'[p] = "idle"
                   /\ ret'[p].err = "unknown_topic"
                   /\ UNCHANGED brokerVars
             /\ (pc[p] = "unsub_load" /\ op[p].q \in topics) => pc'[p] # "idle"
             /\ pc'[p] = "idle" /\ pc[p] # "unsub_load" => ret'[p].err = ""
             /\ (/\ pc[p] \in {"unsub_load", "unsub_lock", "unsub_find"}
                 /\ ~InList(op[p].q, op[p].ep))
                => /\ UNCHANGED <<subs, chclosed, chbuf, metrics, topics>>
                   /\ pc[p] = "unsub_find" =>
                         /\ pc'[p] = "idle"
                         /\ ret'[p].err = ""
                         /\ lock'[op[p].q].w = 0]_vars

\* An Unsubscribe has returned nil under a topic that has a record, and it
\* removed nothing: every endpoint Subscribe returned is open and counted.
C27_Witness ==
    /\ Idle
    /\ \E p \in Procs : ret[p].name = "unsubscribe" /\ ret[p].err = ""
    /\ hist.eps # {}
    /\ \A e \in hist.eps : ~chclosed[e]
    /\ metrics.ActiveConsumers = Cardinality(hist.eps)

\* C26: a Publish that finds no record of its topic returns nil at once and
\* changes nothing in that step: no topic record, no queue; before it, the
\* Publish added one to the total-messages counter and nothing else; and no
\* endpoint, one subscribed afterwards included, ever holds the message.
C26_PublishWithoutTopic ==
    /\ [](\A l \in hist.lost : \A e \in Endpoints : Occ(chbuf[e], l[1]) = 0)
    /\ [][\A p \in Procs :
            (Steps(p) /\ op[p].name = "publish") =>
               /\ topics' = topics /\ qset' = qset
               /\ pc[p] = "pub_total" =>
                     /\ metrics' = [metrics EXCEPT !.TotalMessages = @ + 1]
                     /\ UNCHANGED <<queueVars, dlqVars, subVars>>
               /\ (pc[p] = "pub_load" /\ op[p].q \notin topics) =>
                     /\ pc'[p] = "idle"
                     /\ ret'[p].err = ""
                     /\ UNCHANGED brokerVars]_vars

\* A Publish found no record of its topic; an endpoint was subscribed to the
\* topic afterwards and a later Publish has reached it.
C26_Witness ==
    \E l \in hist.lost :
        /\ subs[l[2]] # <<>>
        /\ chbuf[subs[l[2]][1]] # <<>>
        /\ Head(chbuf[subs[l[2]][1]]).ID > l[1]

\* C25: a Publish in its range over the subscribers can always take its next
\* step; its step at an endpoint whose buffer is full leaves that buffer as it
\* is and moves on to the next subscriber; no step of a Publish changes a DLQ
\* or the failed counter; and the Publish returns nil with a copy of the
\* message in every listed endpoint whose buffer is not full.
C25_FullEndpointSkipped ==
    /\ [](\A p \in Procs :
            (Running /\ pc[p] = "pub_send") => ENABLED (PubSend(p) \/ PubReturn(p)))
    /\ [][\A p \in Procs :
            (Steps(p) /\ op[p].name = "publish") =>
               /\ dlq' = dlq /\ dlqset' = dlqset
               /\ metrics'.FailedMessages = metrics.FailedMessages
               /\ \A q \in Queues :
                     stats'[q].DeadLetterCount = stats[q].DeadLetterCount
               /\ (/\ pc[p] = "pub_send"
                   /\ tmp[p].i <= Len(subs[op[p].q])
                   /\ Len(chbuf[subs[op[p].q][tmp[p].i]]) >= SubCap)
                  => /\ chbuf' = chbuf
                     /\ pc'[p] = "pub_send"
                     /\ tmp'[p].i = tmp[p].i + 1
               /\ pc'[p] = "idle" =>
                     /\ ret'[p].err = ""
                     /\ \A e \in Endpoints :
                           (InList(op[p].q, e) /\ Len(chbuf'[e]) < SubCap)
                           => Occ(chbuf'[e], op[p].msg.ID) = 1]_vars

\* Two subscribers of one topic, the buffer of the first filled by an earlier
\* Publish: a later Publish has returned nil, the first buffer is as it was
\* and the second holds the later message.
C25_Witness ==
    /\ Idle
    /\ \E p \in Procs : ret[p].name = "publish" /\ ret[p].err = ""
    /\ \E t \in AllTopics :
          /\ Len(subs[t]) = 2
          /\ Len(chbuf[subs[t][1]]) = SubCap
          /\ chbuf[subs[t][2]] # <<>>
          /\ Occ(chbuf[subs[t][1]], Head(chbuf[subs[t][2]]).ID) = 0

\* C24: on an open broker whose subscribers have not read yet, an endpoint's
\* buffer changes only by a running Publish appending its message, to an
\* endpoint in the list of the topic published to that does not hold the
\* message already; and when a Publish returns, every endpoint in the list of
\* its topic holds one copy of the message unless its buffer is full, and no
\* endpoint outside that list (another topic's, or unsubscribed) holds any.
C24_PublishDelivers ==
    [][/\ \A e \in Endpoints :
             chbuf'[e] # chbuf[e] =>
                \E p \in Procs :
                   /\ op[p].name = "publish"
                   /\ pc[p] = "pub_send"
                   /\ InList(op[p].q, e)
                   /\ Occ(chbuf[e], op[p].msg.ID) = 0
                   /\ chbuf'[e] = Append(chbuf[e], op[p].msg)
       /\ \A p \in Procs :
             (op[p].name = "publish" /\ pc'[p] = "idle" /\ pc[p] # "idle") =>
                /\ ret'[p].err = ""
                /\ \A e \in Endpoints :
                      LET n == Occ(chbuf'[e], op[p].msg.ID) IN
                      IF InList(op[p].q, e)
                      THEN n = 1 \/ (n = 0 /\ Len(chbuf'[e]) = SubCap)
                      ELSE n = 0]_vars

\* A Publish on "t" has returned; the subscriber of "t" holds the message and
\* the subscriber of "u" holds nothing.
C24_Witness ==
    /\ \E p \in Procs : ret[p].name = "publish" /\ ret[p].err = ""
    /\ subs["t"] # <<>> /\ subs["u"] # <<>>
    /\ chbuf[subs["t"][1]] # <<>>
    /\ chbuf[subs["u"][1]] = <<>>

\* C23: the steps of PurgeQueue on an existing queue take messages out of the
\* buffer, lower the depth by one per message taken, and leave the enqueued,
\* dequeued and dead-letter totals, the global counters and the DLQ alone;
\* when it returns while no Push is in progress the buffer is empty and the
\* depth is 0.  On a queue never created it returns the unknown-queue error
\* and creates nothing.
C23_PurgeFrame ==
    [][\A p \in Procs :
          (Steps(p) /\ op[p].name = "purge") =>
             /\ metrics' = metrics /\ dlq' = dlq /\ dlqset' = dlqset
             /\ qset' = qset
             /\ \A q \in Queues :
                   /\ stats'[q].EnqueuedTotal = stats[q].EnqueuedTotal
                   /\ stats'[q].DequeuedTotal = stats[q].DequeuedTotal
                   /\ stats'[q].DeadLetterCount = stats[q].DeadLetterCount
             /\ (pc[p] = "purge_load" /\ op[p].q \notin qset) =>
                   /\ ret'[p].err = "unknown_queue"
                   /\ UNCHANGED brokerVars
             /\ pc[p] = "purge_count" =>
                   stats'[op[p].q].MessageCount = stats[op[p].q].MessageCount - 1
             /\ (/\ pc'[p] = "idle"
                 /\ ret'[p].err = ""
                 /\ \A r \in Procs \ {p} :
                       op[r].name \notin {"push", "reprocessDLQ"})
                => /\ buf'[op[p].q] = <<>>
                   /\ stats'[op[p].q].MessageCount = 0]_vars

\* C22: the counters total, processed and failed of the metrics record and the
\* enqueued, dequeued and dead-letter totals of every queue never decrease in
\* any step, the steps of PurgeQueue and ReprocessDLQ included.
C22_CountersMonotonic ==
    [][/\ metrics'.TotalMessages >= metrics.TotalMessages
       /\ metrics'.ProcessedMessages >= metrics.ProcessedMessages
       /\ metrics'.FailedMessages >= metrics.FailedMessages
       /\ \A q \in Queues :
             /\ stats'[q].EnqueuedTotal >= stats[q].EnqueuedTotal
             /\ stats'[q].DequeuedTotal >= stats[q].DequeuedTotal
             /\ stats'[q].DeadLetterCount >= stats[q].DeadLetterCount]_vars

\* A message was dead-lettered, reprocessed into the queue and then purged.
C22_Witness ==
    /\ Idle
    /\ hist.purged > 0
    /\ metrics.FailedMessages > 0
    /\ \E q \in dlqset : dlq[q] = <<>> /\ stats[q].EnqueuedTotal > 0

\* C21: on an open broker a PullWithTimeout with a positive duration that
\* finds a message pending, while no other goroutine is pulling, takes that
\* message and does not return the timeout error, however short the duration.
C21_PendingBeatsTimeout ==
    [][\A p \in Procs :
          (/\ Steps(p)
           /\ op[p].name = "pullWithTimeout"
           /\ op[p].tmo > 0
           /\ pc[p] = "pull_select"
           /\ buf[op[p].q] # <<>>
           /\ \A r \in Procs \ {p} :
                 op[r].name \notin {"pull", "pullWithTimeout", "purge"})
          => /\ pc'[p] = "pull_count"
             /\ tmp'[p].m = Head(buf[op[p].q])]_vars

\* C1: every Push on an open broker returns nil, and the message of a Push
\* that returned nil, unless a pull, a purge or a reprocess has taken it out
\* since, is in exactly one of the queue's buffer and the queue's DLQ.
C1_PushPlacedExactlyOnce ==
    /\ \A p \in Procs : ret[p].name = "push" => ret[p].err = ""
    /\ \A id \in hist.pushed \ hist.removed :
          \A q \in Queues : Occ(buf[q], id) + Occ(dlq[q], id) = 1

\* C2: once N concurrent pushes into a fresh queue, with no pull and no
\* purge, have all returned, the depth is min(N, capacity), the DLQ holds
\* max(0, N - capacity) messages and every pushed id is in one of the two.
C2_ConcurrentPushesAllKept ==
    (Idle /\ nextId > 0) =>
        \A q \in Queues :
            /\ stats[q].MessageCount = Min(nextId, QueueCap)
            /\ Len(dlq[q]) = Max(0, nextId - QueueCap)
            /\ \A id \in 1..nextId : Occ(buf[q], id) + Occ(dlq[q], id) >= 1

\* C3: once Close has returned nil, a later Push, Pull, PullWithTimeout,
\* Publish or Subscribe returns the closed-broker error, no message and no
\* endpoint, and changes nothing in the broker.
C3_ClosedBrokerRefuses ==
    [][\A p \in Procs :
          (/\ Steps(p)
           /\ hist.after[p]
           /\ op[p].name \in {"push", "pull", "pullWithTimeout", "publish",
                              "subscribe"})
          => Refused(p)]_vars

C3_Witness ==
    /\ hist.closeOk = 1
    /\ \E p \in Procs :
          hist.after[p] /\ ret[p].name = "push" /\ ret[p].err = "closed"

\* C4: once Close has returned nil, a later Unsubscribe, MoveToDLQ,
\* ReprocessDLQ or PurgeQueue returns the closed-broker error and changes
\* nothing in the broker.
C4_ClosedBrokerRefusesAdmin ==
    [][\A p \in Procs :
          (/\ Steps(p)
           /\ hist.after[p]
           /\ op[p].name \in {"unsubscribe", "moveToDLQ", "reprocessDLQ", "purge"})
          => Refused(p)]_vars

\* C5: a subscriber endpoint is closed at most once, whatever the order of
\* Subscribe, Unsubscribe and Close.
C5_EndpointClosedAtMostOnce ==
    \A e \in Endpoints : hist.closes[e] <= 1

\* C6: Publish never sends on a closed endpoint, and returns nil or the
\* closed-broker error.
C6_PublishNeverSendsOnClosed ==
    /\ panicked # "send on closed channel"
    /\ \A p \in Procs : ret[p].name = "publish" => ret[p].err \in {"", "closed"}

\* C7: once Close has returned nil, every endpoint a Subscribe has returned
\* is closed.
C7_ReturnedEndpointClosedAfterClose ==
    hist.closeOk > 0 => \A e \in hist.eps : chclosed[e]

\* C8: a PullWithTimeout with a positive duration that is parked on an empty
\* queue when the broker closes eventually returns, with the error of the
\* ctx.Done() case unless a Push handed it a message first, and without its
\* deadline having to pass.
C8_CloseReleasesBlockedPull ==
    \A p \in Procs :
        (pc[p] = "pull_parked" /\ closed = 1)
        ~> (/\ pc[p] = "idle"
            /\ ret[p].name = "pullWithTimeout"
            /\ (ret[p].err = "timeout" \/ ret[p].has))

C8_Witness ==
    \E p \in Procs : pc[p] = "pull_woken" /\ cancelled /\ ~tmp[p].timer

\* C9: a pull whose context is done (the broker's context cancelled, or the
\* deadline passed) takes no message, and no pull returns a message once
\* Close has returned nil.
C9_NoMessageAfterClose ==
    [][\A p \in Procs :
          /\ (pc[p] = "pull_select" /\ pc'[p] = "pull_count") => ~CtxDone(p)
          /\ (pc[p] = "pull_proc" /\ pc'[p] = "idle") => hist.closeOk = 0]_vars

\* C10: at most one Close returns nil and every other Close returns the
\* already-closed error, which it does only when another Close has won the
\* compare-and-swap; closed is terminal; IsHealthy is true exactly until a
\* Close wins the compare-and-swap.
InClose(p) == pc[p] \in {"close_cancel", "close_range", "close_topic"}

C10_CloseOnce ==
    /\ [](/\ hist.closeOk <= 1
          /\ Cardinality({p \in Procs : InClose(p)}) + hist.closeOk <= 1
          /\ IsHealthy <=> (hist.closeOk = 0 /\ \A p \in Procs : ~InClose(p))
          /\ \A p \in Procs :
                ret[p].name = "close" =>
                    /\ ret[p].err \in {"", "already_closed"}
                    /\ ~IsHealthy)
    /\ [][~IsHealthy => ~IsHealthy']_vars

C10_Witness ==
    /\ hist.closeOk = 1
    /\ \E p \in Procs : ret[p].name = "close" /\ ret[p].err = "already_closed"

====
